---- MODULE Spec2Model ----
(***************************************************************************)
(* jj-ryu: submission of a stack of jj bookmarks as a chain of pull        *)
(* requests.  The model covers the two commands that drive the engine      *)
(* (cli/submit.rs run_submit, cli/sync.rs run_sync), the platform adapters *)
(* (platform/github.rs, platform/azure_devops.rs) and the three-phase      *)
(* engine (analysis, planner, executor) they call.                         *)
(***************************************************************************)
EXTENDS Integers, Sequences, FiniteSets, TLC

VARIABLES
    graph,          \* ChangeGraph built from the workspace (topology only)
    platform_kind,  \* which PlatformService implementation is in use
    args,           \* command line: [cmd, bookmark, options] and how the remote setup goes
    remote_refs,    \* workspace/remote: bookmark -> "none" | "stale" | "synced"
    fetched,        \* number of git_fetch calls made so far
    prs,            \* platform: sequence of pull requests, number = index
    pc,             \* position in run_submit / run_sync
    run,            \* how many times the command has been started
    pre,            \* remote_refs / prs / fetched as they were when this run began
    stack_plans,    \* the plans of this run (one for submit, one per stack for sync)
    cur,            \* index of the plan being executed
    phase,          \* Phase last emitted by execute_submission for the current plan
    log,            \* what the executor has done for the current plan, in order
    bookmark_to_pr, \* executor's map head bookmark -> PR number
    result,         \* SubmissionResult of the current plan
    exit,           \* how the command ended: "none" while running, "ok", or an error kind
    error_arg,      \* the bookmark the error message cites, "" when there is none
    selected,       \* segment indices picked in interactive_select, {} without --select
    confirmed,      \* answer to the Confirm prompt: "unasked", "yes" or "no"
    failures,       \* platform/workspace failures injected so far
    run_ok,         \* every execute_submission of this run so far returned success
    prev_ok,        \* the previous run returned Ok with every result successful
    url,            \* the remote's URL and the environment it is read in
    repo_info       \* what parse_repo_info made of the URL

vars == <<graph, platform_kind, args, remote_refs, fetched, prs, pc, run, pre,
          stack_plans, cur, phase, log, bookmark_to_pr, result, exit, error_arg, selected,
          confirmed, failures, run_ok, prev_ok, url, repo_info>>

\* the commands are modelled from the point where the remote has been read
NoUrl == [remote |-> <<>>, text |-> <<>>, env |-> <<>>]

NotParsed == [err |-> "NotParsed", arg |-> "", value |-> <<>>]

(***************************************************************************)
(* Bounds of the model                                                     *)
(***************************************************************************)
MaxRuns == 2        \* the command is run at most this many times in succession
MaxFailures == 1    \* at most this many platform/workspace calls fail

(***************************************************************************)
(* Names                                                                   *)
(***************************************************************************)
DefaultBranch == "main"

\* Bookmark names of the model in lexicographic order
NameOrder == <<"a", "b", "c", "d", "x">>

Names == {NameOrder[i] : i \in DOMAIN NameOrder}

Rank(n) == CHOOSE i \in DOMAIN NameOrder : NameOrder[i] = n

Min(S) == CHOOSE x \in S : \A y \in S : x <= y

Max(S) == CHOOSE x \in S : \A y \in S : x >= y

Range(s) == {s[i] : i \in DOMAIN s}

RECURSIVE SelectSeq2(_, _)
\* the elements of sequence s that lie in set K, in order (Vec::retain)
SelectSeq2(s, K) ==
    IF s = <<>> THEN <<>>
    ELSE IF Head(s) \in K THEN <<Head(s)>> \o SelectSeq2(Tail(s), K)
         ELSE SelectSeq2(Tail(s), K)

(***************************************************************************)
(* Change graph (types::ChangeGraph): stacks of segments, trunk first.     *)
(* A segment is the bookmarks at one change.                               *)
(***************************************************************************)
Seg(bs, c) == [bookmarks |-> bs, change_id |-> c]

\* a -> b -> c
LinearGraph == [stacks |-> << <<Seg(<<"a">>, 1), Seg(<<"b">>, 2), Seg(<<"c">>, 3)>> >>]

\* a -> b and a -> d: two stacks sharing the trunk-side segment
BranchGraph ==
    [stacks |-> << <<Seg(<<"a">>, 1), Seg(<<"b">>, 2)>>,
                   <<Seg(<<"a">>, 1), Seg(<<"d">>, 4)>> >>]

\* {a, x} -> b: the first segment carries two bookmarks
SharedGraph == [stacks |-> << <<Seg(<<"x", "a">>, 1), Seg(<<"b">>, 2)>> >>]

Graphs == {LinearGraph, BranchGraph, SharedGraph}

SegHas(seg, b) == \E k \in DOMAIN seg.bookmarks : seg.bookmarks[k] = b

GraphBookmarks(G) ==
    UNION {UNION {Range(G.stacks[i][j].bookmarks) : j \in DOMAIN G.stacks[i]} :
           i \in DOMAIN G.stacks}

\* types::Bookmark as the graph builder snapshots it from the workspace
Bookmark(name, refs) ==
    [name |-> name, has_remote |-> refs[name] # "none", is_synced |-> refs[name] = "synced"]

(***************************************************************************)
(* Analysis (submit/analysis.rs)                                           *)
(***************************************************************************)
StacksWith(G, b) ==
    {i \in DOMAIN G.stacks : \E j \in DOMAIN G.stacks[i] : SegHas(G.stacks[i][j], b)}

LeafStacksWith(G, b) ==
    {i \in StacksWith(G, b) : SegHas(G.stacks[i][Len(G.stacks[i])], b)}

\* step 1: the stack whose leaf carries the target, otherwise the first that contains it
find_stack(G, b) ==
    IF LeafStacksWith(G, b) # {} THEN Min(LeafStacksWith(G, b)) ELSE Min(StacksWith(G, b))

\* step 3: the target when the segment is the target's, else the lexicographically first
select_bookmark_for_segment(seg, target) ==
    IF SegHas(seg, target) THEN target
    ELSE LET r == Min({Rank(seg.bookmarks[k]) : k \in DOMAIN seg.bookmarks})
         IN  NameOrder[r]

\* mutant of get_base_branch: every segment is based on the default branch
get_base_branch_default(i, reps, default_branch) == default_branch

\* step 4: default branch for the first segment, else the previous representative
get_base_branch(i, reps, default_branch) ==
    IF i = 1 THEN default_branch ELSE reps[i - 1]

analyze_submission(G, target, refs) ==
    LET st   == G.stacks[find_stack(G, target)]
        t    == CHOOSE j \in DOMAIN st : SegHas(st[j], target)
        reps == [j \in 1..t |-> select_bookmark_for_segment(st[j], target)]
    IN  [target_bookmark |-> target,
         segments |-> [j \in 1..t |->
             [bookmark    |-> Bookmark(reps[j], refs),
              change_id   |-> st[j].change_id,
              base_branch |-> get_base_branch(j, reps, DefaultBranch)]]]

(***************************************************************************)
(* Platform (platform/mod.rs PlatformService).  A pull request is          *)
(* [head_ref, base_ref, is_draft, threads]; its number is its index in     *)
(* prs.  threads holds the comments of the PR: on Azure DevOps a sequence  *)
(* of threads [id, comments], each comment [id, type_id, content] with an  *)
(* id that is unique within its thread only (ids start at 1 in every       *)
(* thread); on GitHub issue comments are flat, so every thread holds one   *)
(* comment whose id is unique in the repository.                           *)
(***************************************************************************)
Platforms == {"GitHub", "AzureDevOps"}

\* the literal sentinel that opens a stack comment
COMMENT_DATA_PREFIX == "<!-- jj-ryu-stack-begin -->"

\* comment bodies of the model: a stack comment starts with the prefix sentinel
StackBody == COMMENT_DATA_PREFIX

HumanBody == "looks good"

SystemBody == "created the pull request"

PullRequest(P, n) ==
    [number |-> n, head_ref |-> P[n].head_ref, base_ref |-> P[n].base_ref,
     is_draft |-> P[n].is_draft]

\* mutant of find_existing_pr: the listing comes back empty
find_existing_pr_none(P, head_branch) == 0

\* first open PR whose head is the branch, 0 for None
find_existing_pr(P, head_branch) ==
    LET hits == {n \in DOMAIN P : P[n].head_ref = head_branch}
    IN  IF hits = {} THEN 0 ELSE Min(hits)

create_pr_with_options(P, head, base, draft) ==
    Append(P, [head_ref |-> head, base_ref |-> base, is_draft |-> draft, threads |-> <<>>])

update_pr_base(P, pr_number, new_base) ==
    [P EXCEPT ![pr_number].base_ref = new_base]

publish_pr(P, pr_number) ==
    [P EXCEPT ![pr_number].is_draft = FALSE]

RECURSIVE Flatten(_)
\* concatenation of a sequence of sequences (flat_map)
Flatten(ss) == IF ss = <<>> THEN <<>> ELSE Head(ss) \o Flatten(Tail(ss))

\* comments of one thread as PrComment{id, body}, system comments dropped on Azure DevOps
thread_comments(kind, thread) ==
    LET keep == {c \in Range(thread.comments) : kind = "GitHub" \/ c.type_id = 1}
        kept == SelectSeq2(thread.comments, keep)
    IN  [k \in DOMAIN kept |-> [id |-> kept[k].id, body |-> kept[k].content]]

list_pr_comments(kind, P, pr_number) ==
    LET ts == P[pr_number].threads
    IN  Flatten([t \in DOMAIN ts |-> thread_comments(kind, ts[t])])

\* number of comments on the whole platform
RECURSIVE CommentCount(_)
CommentCount(P) ==
    IF P = <<>> THEN 0
    ELSE Len(Flatten([t \in DOMAIN Head(P).threads |-> Head(P).threads[t].comments]))
         + CommentCount(Tail(P))

\* id the platform gives a new root comment
new_comment_id(kind, P) ==
    IF kind = "AzureDevOps" THEN 1 ELSE CommentCount(P) + 1

create_pr_comment(kind, P, pr_number, body) ==
    LET ts == P[pr_number].threads
        th == [id |-> Len(ts) + 1,
               comments |-> <<[id |-> new_comment_id(kind, P), type_id |-> 1, content |-> body]>>]
    IN  [P EXCEPT ![pr_number].threads = Append(ts, th)]

\* the thread update_pr_comment addresses: 0 when no thread holds the id
find_thread(ts, comment_id) ==
    LET hits == {t \in DOMAIN ts : \E c \in DOMAIN ts[t].comments : ts[t].comments[c].id = comment_id}
    IN  IF hits = {} THEN 0 ELSE Min(hits)

set_content(thread, comment_id, body) ==
    [thread EXCEPT !.comments =
        [c \in DOMAIN thread.comments |->
            IF thread.comments[c].id = comment_id
            THEN [thread.comments[c] EXCEPT !.content = body]
            ELSE thread.comments[c]]]

\* GitHub: the comment with that id, whichever PR it is on (pr_number is ignored);
\* Azure DevOps: that comment id inside the first thread of the PR that holds the id
update_pr_comment(kind, P, pr_number, comment_id, body) ==
    IF kind = "GitHub"
    THEN [n \in DOMAIN P |->
            [P[n] EXCEPT !.threads =
                [t \in DOMAIN P[n].threads |-> set_content(P[n].threads[t], comment_id, body)]]]
    ELSE LET ts == P[pr_number].threads
             t  == find_thread(ts, comment_id)
         IN  IF t = 0 THEN P
             ELSE [P EXCEPT ![pr_number].threads[t] = set_content(ts[t], comment_id, body)]

\* whether update_pr_comment finds something to update (Ok) or reports the API error
update_pr_comment_ok(kind, P, pr_number, comment_id) ==
    IF kind = "GitHub"
    THEN \E n \in DOMAIN P : find_thread(P[n].threads, comment_id) # 0
    ELSE find_thread(P[pr_number].threads, comment_id) # 0

(***************************************************************************)
(* Planner (submit/plan.rs)                                                *)
(***************************************************************************)
\* ExecutionStep: Push, UpdateBase, CreatePr or PublishPr of the segment at index seg
Step(kind, seg, bookmark, base, pr, draft) ==
    [kind |-> kind, seg |-> seg, bookmark |-> bookmark, base |-> base, pr |-> pr,
     draft |-> draft]

PrKinds == {"CreatePr", "UpdateBase"}

\* mutant of Before: a push is ordered only before the PR step of its own segment
Before_own_segment_only(s, t) ==
    \/ s.kind = "Push" /\ t.kind \in PrKinds /\ s.seg = t.seg
    \/ s.kind \in PrKinds /\ t.kind \in PrKinds /\ s.seg < t.seg
    \/ s.kind \in PrKinds \cup {"Push"} /\ t.kind = "PublishPr" /\ s.seg = t.seg

\* mutant of Before: PR steps are not ordered among themselves
Before_unordered_prs(s, t) ==
    \/ s.kind = "Push" /\ t.kind \in PrKinds /\ s.seg <= t.seg
    \/ s.kind \in PrKinds \cup {"Push"} /\ t.kind = "PublishPr" /\ s.seg = t.seg

\* ordering constraints of the plan: s comes before t in execution_steps
Before(s, t) ==
    \/ s.kind = "Push" /\ t.kind \in PrKinds /\ s.seg <= t.seg
    \/ s.kind \in PrKinds /\ t.kind \in PrKinds /\ s.seg < t.seg
    \/ s.kind \in PrKinds \cup {"Push"} /\ t.kind = "PublishPr" /\ s.seg = t.seg

\* mutant of expected_base: every PR is expected on the default branch
expected_base_default(segs, i, default_branch) == default_branch

\* expected base of the segment at index i: the previous segment's bookmark
expected_base(segs, i, default_branch) ==
    IF i = 1 THEN default_branch ELSE segs[i - 1].bookmark.name

\* push decision for a bookmark
needs_push(bm, has_pr) == ~bm.has_remote \/ ~bm.is_synced \/ ~has_pr

create_submission_plan(analysis, P, remote, default_branch) ==
    LET segs     == analysis.segments
        idx      == [i \in DOMAIN segs |-> i]
        nm(i)    == segs[i].bookmark.name
        found    == {i \in DOMAIN segs : find_existing_pr(P, nm(i)) # 0}
        existing == [b \in {nm(i) : i \in found} |-> PullRequest(P, find_existing_pr(P, b))]
        exp(i)   == expected_base(segs, i, default_branch)
        pushes   == SelectSeq2(idx, {i \in DOMAIN segs : needs_push(segs[i].bookmark, i \in found)})
        creates  == SelectSeq2(idx, DOMAIN segs \ found)
        updates  == SelectSeq2(idx, {i \in found : existing[nm(i)].base_ref # exp(i)})
        to_create == [k \in DOMAIN creates |->
                        [bookmark |-> segs[creates[k]].bookmark, base_branch |-> exp(creates[k]),
                         draft |-> FALSE]]
        to_update == [k \in DOMAIN updates |->
                        [bookmark |-> segs[updates[k]].bookmark, pr |-> existing[nm(updates[k])],
                         current_base |-> existing[nm(updates[k])].base_ref,
                         expected_base |-> exp(updates[k])]]
    IN  [segments               |-> segs,
         remote                 |-> remote,
         default_branch         |-> default_branch,
         existing_prs           |-> existing,
         bookmarks_needing_push |-> [k \in DOMAIN pushes |-> segs[pushes[k]].bookmark],
         prs_to_create          |-> to_create,
         prs_to_update_base     |-> to_update,
         prs_to_publish         |-> <<>>,
         execution_steps        |->
              {Step("Push", i, nm(i), "", 0, FALSE) : i \in Range(pushes)}
         \cup {Step("CreatePr", i, nm(i), exp(i), 0, FALSE) : i \in Range(creates)}
         \cup {Step("UpdateBase", i, nm(i), exp(i), existing[nm(i)].number, FALSE) :
                  i \in Range(updates)}]

(***************************************************************************)
(* Command line (cli/submit.rs, cli/sync.rs)                               *)
(***************************************************************************)
SubmitOptions(dry_run) ==
    [dry_run |-> dry_run, confirm |-> FALSE, scope |-> "Default", upto_bookmark |-> "",
     update_only |-> FALSE, draft |-> FALSE, publish |-> FALSE, select |-> FALSE,
     stack |-> ""]

\* SubmitScope
Scopes == {"Default", "Upto", "Only", "Stack"}

\* how opening the workspace's remote goes: select_remote finds the remote and
\* parse_repo_info reads its URL, or one of the two fails
Setups == {"ok", "RemoteNotFound", "Parse"}

\* RemoteName is the remote select_remote picked
RemoteName == "origin"

\* cli/submit.rs apply_plan_options
apply_plan_options(plan, options) ==
    LET p1 == IF options.update_only
              THEN [plan EXCEPT
                      !.prs_to_create = <<>>,
                      !.bookmarks_needing_push =
                          SelectSeq2(plan.bookmarks_needing_push,
                                     {b \in Range(plan.bookmarks_needing_push) :
                                          b.name \in DOMAIN plan.existing_prs})]
              ELSE plan
        p2 == IF options.draft
              THEN [p1 EXCEPT !.prs_to_create =
                        [k \in DOMAIN p1.prs_to_create |->
                            [p1.prs_to_create[k] EXCEPT !.draft = TRUE]]]
              ELSE p1
        drafts == {b \in DOMAIN p2.existing_prs : p2.existing_prs[b].is_draft}
        order  == SelectSeq2([i \in DOMAIN p2.segments |-> p2.segments[i].bookmark.name], drafts)
    IN  IF options.publish
        THEN [p2 EXCEPT !.prs_to_publish =
                  p2.prs_to_publish \o [k \in DOMAIN order |-> p2.existing_prs[order[k]]]]
        ELSE p2

(***************************************************************************)
(* Executor (submit/execute.rs)                                            *)
(***************************************************************************)
NewResult ==
    [success |-> TRUE, pushed_bookmarks |-> <<>>, created_prs |-> <<>>, updated_prs |-> <<>>,
     errors |-> <<>>]

\* SubmissionResult::fail: a fatal error of a push, creation, base update or publish
fail(res, step) ==
    [res EXCEPT !.success = FALSE,
                !.errors = Append(@, [fatal |-> TRUE, kind |-> step.kind, bookmark |-> step.bookmark])]

\* mutant of soft_fail: a failed stack-comment write counts as a fatal error
soft_fail_fatal(res, bookmark) ==
    [res EXCEPT !.success = FALSE,
                !.errors = Append(@, [fatal |-> FALSE, kind |-> "Comment", bookmark |-> bookmark])]

\* a failed stack-comment write is collected, success is left as it is
soft_fail(res, bookmark) ==
    [res EXCEPT !.errors = Append(@, [fatal |-> FALSE, kind |-> "Comment", bookmark |-> bookmark])]

Plan == stack_plans[cur].plan

\* the dry_run argument execute_submission was called with
DryRun == stack_plans[cur].dry_run

Processed == {log[k].step : k \in DOMAIN log}

Outcome(s) == LET k == CHOOSE k \in DOMAIN log : log[k].step = s IN log[k].outcome

\* mutant of aborted: a failure aborts nothing
aborted_never(s) == FALSE

\* a step is aborted when a step it had to wait for failed or was itself aborted
aborted(s) ==
    \E k \in DOMAIN log : Before(log[k].step, s) /\ log[k].outcome \in {"failed", "skipped"}

\* the steps that may come next in the plan's order
Ready == {s \in Plan.execution_steps \ Processed :
              \A t \in Plan.execution_steps : Before(t, s) => t \in Processed}

\* PR number a step acts on: the one planned, or the one created earlier in this run
step_pr(s) == IF s.pr # 0 THEN s.pr ELSE bookmark_to_pr[s.bookmark]

\* workspace.git_push: the remote ref now equals the local change
git_push(refs, bookmark) == [refs EXCEPT ![bookmark] = "synced"]

\* the first comment whose body carries the prefix sentinel, 0 for none
find_stack_comment(comments) ==
    LET hits == {k \in DOMAIN comments : comments[k].body = StackBody}
    IN  IF hits = {} THEN 0 ELSE Min(hits)

\* segments of the plan that have a PR, in stack order, and have no comment event yet
CommentSeg(k) == [kind |-> "Comment", seg |-> k, bookmark |-> Plan.segments[k].bookmark.name,
                  base |-> "", pr |-> bookmark_to_pr[Plan.segments[k].bookmark.name],
                  draft |-> FALSE]

Uncommented ==
    {k \in DOMAIN Plan.segments :
        /\ Plan.segments[k].bookmark.name \in DOMAIN bookmark_to_pr
        /\ CommentSeg(k) \notin Processed}

(***************************************************************************)
(* Initial states: a graph, a command line, and a remote/platform state    *)
(* left behind by earlier work on the repository.                          *)
(***************************************************************************)
\* a branch that is neither the default branch nor a bookmark of the graph
OtherBranch == "release"

\* bookmarks of the segment just below b's segment, in any stack
ParentNames(G, b) ==
    UNION {UNION {Range(G.stacks[i][j - 1].bookmarks) :
                    j \in {j \in DOMAIN G.stacks[i] : j > 1 /\ SegHas(G.stacks[i][j], b)}} :
           i \in DOMAIN G.stacks}

\* bases an already open PR of b may have: the right one, or a stale one
InitBases(G, b) ==
    IF ParentNames(G, b) = {} THEN {DefaultBranch, OtherBranch}
    ELSE {DefaultBranch} \cup ParentNames(G, b)

\* per bookmark: no PR (never pushed, or pushed and synced), or an open PR on a pushed
\* bookmark; the linear graph takes every combination, the other graphs three of them
InitStates(G, b) ==
    IF G = LinearGraph
    THEN      {[ref |-> r, has_pr |-> FALSE, base |-> "", draft |-> FALSE] :
                  r \in {"none", "synced"}}
         \cup {[ref |-> r, has_pr |-> TRUE, base |-> x, draft |-> FALSE] :
                  r \in {"stale", "synced"}, x \in InitBases(G, b)}
    ELSE      {[ref |-> "none", has_pr |-> FALSE, base |-> "", draft |-> FALSE]}
         \cup {[ref |-> "synced", has_pr |-> TRUE, base |-> x, draft |-> FALSE] :
                  x \in InitBases(G, b)}

\* comments an open PR already carries
SeedThreads(kind, n) ==
    IF kind = "GitHub"
    THEN <<[id |-> 1, comments |-> <<[id |-> n, type_id |-> 1, content |-> HumanBody]>>]>>
    ELSE <<[id |-> 1, comments |-> <<[id |-> 1, type_id |-> 1, content |-> HumanBody]>>],
           [id |-> 2, comments |-> <<[id |-> 1, type_id |-> 2, content |-> SystemBody]>>]>>

InitPrs(G, ch, kind) ==
    LET heads == SelectSeq2(NameOrder, {b \in GraphBookmarks(G) : ch[b].has_pr})
    IN  [n \in DOMAIN heads |->
            [head_ref |-> heads[n], base_ref |-> ch[heads[n]].base,
             is_draft |-> ch[heads[n]].draft,
             threads |-> SeedThreads(kind, n)]]

\* a target that is no bookmark of any graph
UnknownBookmark == "z"

\* the linear graph has one stack, for which sync does what submit of the leaf does, so
\* it is submitted only; the graphs with several stacks or bookmarks are also synced
CommandLines(G) ==
         {[cmd |-> "submit", bookmark |-> b, options |-> SubmitOptions(d), setup |-> "ok"] :
             b \in GraphBookmarks(G) \cup {UnknownBookmark}, d \in BOOLEAN}
    \cup {[cmd |-> "sync", bookmark |-> "", options |-> SubmitOptions(d), setup |-> "ok"] :
             d \in IF G = LinearGraph THEN {} ELSE BOOLEAN}

\* platforms a graph is tried on
PlatformsOf(G) == IF G = LinearGraph THEN {"GitHub"} ELSE Platforms

Snapshot == [remote_refs |-> remote_refs, prs |-> prs, fetched |-> fetched]

Init ==
    /\ graph \in Graphs
    /\ platform_kind \in PlatformsOf(graph)
    /\ args \in CommandLines(graph)
    /\ \E ch \in [GraphBookmarks(graph) -> UNION {InitStates(graph, b) : b \in GraphBookmarks(graph)}] :
         /\ \A b \in GraphBookmarks(graph) : ch[b] \in InitStates(graph, b)
         /\ remote_refs = [b \in GraphBookmarks(graph) |-> ch[b].ref]
         /\ prs = InitPrs(graph, ch, platform_kind)
    /\ fetched = 0
    /\ pc = "start"
    /\ run = 1
    /\ pre = [remote_refs |-> remote_refs, prs |-> prs, fetched |-> 0]
    /\ stack_plans = <<>>
    /\ cur = 0
    /\ phase = "None"
    /\ log = <<>>
    /\ bookmark_to_pr = <<>>
    /\ result = NewResult
    /\ exit = "none"
    /\ error_arg = ""
    /\ selected = {}
    /\ confirmed = "unasked"
    /\ failures = 0
    /\ run_ok = TRUE
    /\ prev_ok = FALSE
    /\ url = NoUrl
    /\ repo_info = NotParsed

(***************************************************************************)
(* Actions                                                                 *)
(***************************************************************************)
World == <<graph, platform_kind, args, url, repo_info>>

\* what the command has told or asked the user
Told == <<error_arg, selected, confirmed>>

\* state of execute_submission when it is entered for plan number k
enter_execution(plans, k) ==
    /\ stack_plans' = plans
    /\ cur' = k
    /\ phase' = "Executing"
    /\ log' = <<>>
    /\ bookmark_to_pr' =
          [b \in DOMAIN plans[k].plan.existing_prs |-> plans[k].plan.existing_prs[b].number]
    /\ result' = NewResult
    /\ pc' = "execute"

\* the command returns before execute_submission is called
return_early(code, arg) ==
    /\ pc' = "done"
    /\ exit' = code
    /\ error_arg' = arg
    /\ UNCHANGED <<stack_plans, cur, phase, log, bookmark_to_pr, result>>

\* Ok(value) and Err(kind(arg)) of a Result
Ok(v) == [err |-> "", arg |-> "", value |-> v]

Err(kind, arg) == [err |-> kind, arg |-> arg, value |-> <<>>]

\* iter().position(|s| s.bookmark.name == name), counted from 1; 0 for None
position(segs, name) ==
    LET hits == {i \in DOMAIN segs : segs[i].bookmark.name = name}
    IN  IF hits = {} THEN 0 ELSE Min(hits)

\* mutant of truncate: the segment at the index is cut off as well
truncate_before(segs, idx) == SubSeq(segs, 1, idx - 1)

\* segments.truncate(idx + 1) for the 0-based idx of the code: keep the first idx segments
truncate(segs, idx) == SubSeq(segs, 1, idx)

\* mutant of parent_bookmark: the target's own bookmark is taken for the parent
parent_bookmark_self(segs, target_idx) == segs[target_idx].bookmark.name

\* the bookmark of the segment before the target's
parent_bookmark(segs, target_idx) == segs[target_idx - 1].bookmark.name

\* graph.bookmark_to_change_id
bookmark_to_change_id(G, b) ==
    LET i == Min(StacksWith(G, b))
        j == CHOOSE j \in DOMAIN G.stacks[i] : SegHas(G.stacks[i][j], b)
    IN  G.stacks[i][j].change_id

\* cli/submit.rs find_all_descendants: the bookmarks of the segments that follow, in any
\* stack, a segment on the bookmark's change
find_all_descendants(G, bookmark) ==
    IF bookmark \notin GraphBookmarks(G) THEN {}
    ELSE LET c == bookmark_to_change_id(G, bookmark)
         IN  UNION {UNION {Range(G.stacks[i][j].bookmarks) \ {bookmark} :
                             j \in {j \in DOMAIN G.stacks[i] :
                                       /\ G.stacks[i][j].change_id # c
                                       /\ \E k \in 1..(j - 1) : G.stacks[i][k].change_id = c}} :
                    i \in DOMAIN G.stacks}

\* the orders in which a HashSet of names may be iterated
Orders(S) == {o \in [1..Cardinality(S) -> S] : \A x \in S : \E k \in DOMAIN o : o[k] = x}

\* mutant of push_new: every segment is appended
push_new_all(segs, more) == segs \o more

\* the segments of more that are not yet in segs by bookmark name, appended in order
RECURSIVE push_new(_, _)
push_new(segs, more) ==
    IF more = <<>> THEN segs
    ELSE push_new(IF position(segs, Head(more).bookmark.name) = 0
                  THEN Append(segs, Head(more)) ELSE segs,
                  Tail(more))

\* SubmitScope::Stack: the analysis of every descendant, in the given order, merged in
RECURSIVE merge_descendants(_, _, _, _)
merge_descendants(G, segs, descendants, refs) ==
    IF descendants = <<>> THEN segs
    ELSE merge_descendants(G,
                           push_new(segs, analyze_submission(G, Head(descendants), refs).segments),
                           Tail(descendants), refs)

\* cli/submit.rs build_analysis; descendants is find_all_descendants in iteration order
build_analysis(G, bookmark, options, P, refs, descendants) ==
    LET analysis == analyze_submission(G, bookmark, refs)
        segs     == analysis.segments
    IN  CASE options.scope = "Default" -> Ok(analysis)
          [] options.scope = "Upto" ->
                LET idx == position(segs, options.upto_bookmark)
                IN  IF idx = 0 THEN Err("InvalidArgument", options.upto_bookmark)
                    ELSE Ok([target_bookmark |-> options.upto_bookmark,
                             segments |-> truncate(segs, idx)])
          [] options.scope = "Only" ->
                LET target_idx == position(segs, bookmark)
                IN  IF target_idx = 0 THEN Err("Internal", bookmark)
                    ELSE IF target_idx > 1
                            /\ find_existing_pr(P, parent_bookmark(segs, target_idx)) = 0
                    THEN Err("InvalidArgument", parent_bookmark(segs, target_idx))
                    ELSE Ok([analysis EXCEPT !.segments = <<segs[target_idx]>>])
          [] options.scope = "Stack" ->
                Ok([analysis EXCEPT !.segments = merge_descendants(G, segs, descendants, refs)])

\* mutant of interactive_select: every selection is taken as it is
interactive_select_unchecked(analysis, selections) ==
    Ok({analysis.segments[i].bookmark.name : i \in selections})

\* cli/submit.rs interactive_select: selections are the indices ticked in the prompt
interactive_select(analysis, selections) ==
    IF selections # {}
       /\ Max(selections) - Min(selections) + 1 # Cardinality(selections)
    THEN LET gap_idx == Min((Min(selections)..Max(selections)) \ selections)
         IN  Err("InvalidArgument", analysis.segments[gap_idx].bookmark.name)
    ELSE Ok({analysis.segments[i].bookmark.name : i \in selections})

\* cli/submit.rs filter_plan_to_selection
filter_plan_to_selection(plan, sel) ==
    [plan EXCEPT
        !.segments = SelectSeq2(@, {x \in Range(@) : x.bookmark.name \in sel}),
        !.bookmarks_needing_push = SelectSeq2(@, {x \in Range(@) : x.name \in sel}),
        !.prs_to_create = SelectSeq2(@, {x \in Range(@) : x.bookmark.name \in sel}),
        !.prs_to_update_base = SelectSeq2(@, {x \in Range(@) : x.bookmark.name \in sel})]

\* mutant of confirm_answers: the prompt is shown in a dry run too
confirm_answers_dry_run(options) == IF options.confirm THEN BOOLEAN ELSE {TRUE}

\* the answers the Confirm prompt may get; it is shown with --confirm outside a dry run
confirm_answers(options) == IF options.confirm /\ ~options.dry_run THEN BOOLEAN ELSE {TRUE}

\* what the user answered, "unasked" when the prompt is not shown
answer(options, proceed) ==
    IF confirm_answers(options) = {TRUE} THEN "unasked"
    ELSE IF proceed THEN "yes" ELSE "no"

\* run_submit up to the call of execute_submission
run_submit ==
    /\ pc = "start"
    /\ args.cmd = "submit"
    /\ UNCHANGED <<World, remote_refs, fetched, prs, run, pre, failures, run_ok, prev_ok>>
    /\ IF args.options.draft /\ args.options.publish
       THEN return_early("InvalidArgument", "") /\ selected' = {} /\ confirmed' = "unasked"
       ELSE IF args.setup # "ok"
       THEN return_early(args.setup, "") /\ selected' = {} /\ confirmed' = "unasked"
       ELSE IF args.bookmark \notin GraphBookmarks(graph)
       THEN return_early("BookmarkNotFound", args.bookmark) /\ selected' = {} /\ confirmed' = "unasked"
       ELSE \E descendants \in IF args.options.scope = "Stack"
                               THEN Orders(find_all_descendants(graph, args.bookmark))
                               ELSE {<<>>} :
            LET built == build_analysis(graph, args.bookmark, args.options, prs, remote_refs,
                                        descendants)
            IN  IF built.err # ""
                THEN return_early(built.err, built.arg) /\ selected' = {} /\ confirmed' = "unasked"
                ELSE LET analysis == built.value
                         plan     == apply_plan_options(
                                         create_submission_plan(analysis, prs, RemoteName,
                                                                DefaultBranch),
                                         args.options)
                     IN  \E selections \in IF args.options.select
                                           THEN SUBSET DOMAIN analysis.segments ELSE {{}} :
                         LET sel == interactive_select(analysis, selections)
                         IN  /\ selected' = selections
                             /\ IF args.options.select /\ sel.err # ""
                                THEN return_early(sel.err, sel.arg) /\ confirmed' = "unasked"
                                ELSE IF args.options.select /\ sel.value = {}
                                THEN return_early("ok", "") /\ confirmed' = "unasked"
                                ELSE \E proceed \in confirm_answers(args.options) :
                                     /\ confirmed' = answer(args.options, proceed)
                                     /\ IF ~proceed THEN return_early("ok", "")
                                        ELSE
                                          /\ enter_execution(
                                               <<[leaf |-> args.bookmark, analysis |-> analysis,
                                                  plan |-> IF args.options.select
                                                           THEN filter_plan_to_selection(plan, sel.value)
                                                           ELSE plan,
                                                  dry_run |-> args.options.dry_run]>>, 1)
                                          /\ exit' = "none"
                                          /\ error_arg' = ""

\* the leaf bookmark run_sync analyses a stack from: last segment, first bookmark
leaf_bookmark(stack) == stack[Len(stack)].bookmarks[1]

\* mutant of sync_fetches: the fetch is not guarded by dry_run
sync_fetches_always(options) == TRUE

\* run_sync fetches from the remote unless it is a dry run
sync_fetches(options) == ~options.dry_run

\* run_sync: the stacks to sync, as indices into graph.stacks; with --stack the first
\* stack that holds the bookmark, <<>> when none does
stacks_to_sync(G, stack_bookmark) ==
    IF stack_bookmark = "" THEN [i \in DOMAIN G.stacks |-> i]
    ELSE IF StacksWith(G, stack_bookmark) = {} THEN <<>>
    ELSE <<Min(StacksWith(G, stack_bookmark))>>

\* run_sync up to the first call of execute_submission
run_sync ==
    /\ pc = "start"
    /\ args.cmd = "sync"
    /\ selected' = {}
    /\ UNCHANGED <<World, remote_refs, prs, run, pre, failures, run_ok, prev_ok>>
    /\ IF args.setup # "ok"
       THEN return_early(args.setup, "") /\ UNCHANGED fetched /\ confirmed' = "unasked"
       ELSE /\ fetched' = IF sync_fetches(args.options) THEN fetched + 1 ELSE fetched
            /\ LET sts   == stacks_to_sync(graph, args.options.stack)
                   plans == [i \in DOMAIN sts |->
                               LET leaf     == leaf_bookmark(graph.stacks[sts[i]])
                                   analysis == analyze_submission(graph, leaf, remote_refs)
                               IN  [leaf |-> leaf, analysis |-> analysis,
                                    plan |-> create_submission_plan(analysis, prs, RemoteName,
                                                                    DefaultBranch),
                                    dry_run |-> args.options.dry_run]]
               IN  IF args.options.stack # "" /\ sts = <<>>
                   THEN return_early("BookmarkNotFound", args.options.stack)
                        /\ confirmed' = "unasked"
                   ELSE IF plans = <<>> THEN return_early("ok", "") /\ confirmed' = "unasked"
                   ELSE \E proceed \in confirm_answers(args.options) :
                        /\ confirmed' = answer(args.options, proceed)
                        /\ IF ~proceed THEN return_early("ok", "")
                           ELSE enter_execution(plans, 1) /\ exit' = "none" /\ error_arg' = ""

\* one step of the plan, in the plan's order; ok is whether the call it makes succeeds
execute_step ==
    /\ pc = "execute"
    /\ phase = "Executing"
    /\ \E s \in Ready, ok \in BOOLEAN :
         /\ ok \/ failures < MaxFailures
         /\ LET out == IF DryRun THEN "dry"
                       ELSE IF aborted(s) THEN "skipped"
                       ELSE IF ok THEN "ok" ELSE "failed"
            IN  /\ (out \in {"dry", "skipped"}) => ok
                /\ log' = Append(log, [step |-> s, outcome |-> out])
                /\ failures' = IF out = "failed" THEN failures + 1 ELSE failures
                /\ remote_refs' = IF out = "ok" /\ s.kind = "Push"
                                  THEN git_push(remote_refs, s.bookmark) ELSE remote_refs
                /\ prs' = IF out # "ok" THEN prs
                          ELSE CASE s.kind = "CreatePr" ->
                                        create_pr_with_options(prs, s.bookmark, s.base, s.draft)
                                 [] s.kind = "UpdateBase" -> update_pr_base(prs, step_pr(s), s.base)
                                 [] s.kind = "PublishPr" -> publish_pr(prs, step_pr(s))
                                 [] OTHER -> prs
                /\ bookmark_to_pr' = IF out = "ok" /\ s.kind = "CreatePr"
                                     THEN (s.bookmark :> Len(prs) + 1) @@ bookmark_to_pr
                                     ELSE bookmark_to_pr
                /\ result' = CASE out = "failed" -> fail(result, s)
                               [] out = "ok" /\ s.kind = "Push" ->
                                    [result EXCEPT !.pushed_bookmarks = Append(@, s.bookmark)]
                               [] out = "ok" /\ s.kind = "CreatePr" ->
                                    [result EXCEPT !.created_prs = Append(@, Len(prs) + 1)]
                               [] out = "ok" /\ s.kind \in {"UpdateBase", "PublishPr"} ->
                                    [result EXCEPT !.updated_prs = Append(@, step_pr(s))]
                               [] OTHER -> result
    /\ UNCHANGED <<World, fetched, pc, run, pre, stack_plans, cur, phase, exit, Told, run_ok,
                   prev_ok>>

\* mutant of begin_comments: the comment phase does not wait for the steps
begin_comments_early ==
    /\ pc = "execute"
    /\ phase = "Executing"
    /\ phase' = "AddingComments"
    /\ UNCHANGED <<World, remote_refs, fetched, prs, pc, run, pre, stack_plans, cur, log, Told,
                   bookmark_to_pr, result, exit, failures, run_ok, prev_ok>>

\* every step has been carried out: Phase::AddingComments
begin_comments ==
    /\ pc = "execute"
    /\ phase = "Executing"
    /\ Plan.execution_steps \subseteq Processed
    /\ phase' = "AddingComments"
    /\ UNCHANGED <<World, remote_refs, fetched, prs, pc, run, pre, stack_plans, cur, log, Told,
                   bookmark_to_pr, result, exit, failures, run_ok, prev_ok>>

\* the stack comment of the next PR of the stack: updated when one is found, else created
write_comment ==
    /\ pc = "execute"
    /\ phase = "AddingComments"
    /\ Uncommented # {}
    /\ \E ok \in BOOLEAN :
         /\ ok \/ (failures < MaxFailures /\ ~DryRun)
         /\ LET k        == Min(Uncommented)
                c        == CommentSeg(k)
                comments == list_pr_comments(platform_kind, prs, c.pr)
                found    == find_stack_comment(comments)
                updated  == found # 0
                done     == ok /\ (updated =>
                                update_pr_comment_ok(platform_kind, prs, c.pr, comments[found].id))
                out      == IF DryRun THEN "dry"
                            ELSE IF ~done THEN "failed"
                            ELSE IF updated THEN "updated" ELSE "created"
            IN  /\ log' = Append(log, [step |-> c, outcome |-> out])
                /\ failures' = IF ok THEN failures ELSE failures + 1
                /\ prs' = CASE out = "updated" ->
                                 update_pr_comment(platform_kind, prs, c.pr, comments[found].id,
                                                   StackBody)
                            [] out = "created" -> create_pr_comment(platform_kind, prs, c.pr, StackBody)
                            [] OTHER -> prs
                /\ result' = IF out = "failed" THEN soft_fail(result, c.bookmark) ELSE result
    /\ UNCHANGED <<World, remote_refs, fetched, pc, run, pre, stack_plans, cur, phase, Told,
                   bookmark_to_pr, exit, run_ok, prev_ok>>

\* Phase::Complete: execute_submission returns; run_sync goes on to the next stack's plan
finish_execution ==
    /\ pc = "execute"
    /\ phase = "AddingComments"
    /\ Uncommented = {}
    /\ run_ok' = (run_ok /\ result.success)
    /\ IF cur < Len(stack_plans)
       THEN /\ enter_execution(stack_plans, cur + 1)
            /\ UNCHANGED exit
       ELSE /\ pc' = "done"
            /\ exit' = "ok"
            /\ phase' = "Complete"
            /\ UNCHANGED <<stack_plans, cur, log, bookmark_to_pr, result>>
    /\ UNCHANGED <<World, remote_refs, fetched, prs, run, pre, failures, prev_ok, Told>>

\* the user runs the same command again on the same local graph
rerun ==
    /\ pc = "done"
    /\ run < MaxRuns
    /\ run' = run + 1
    /\ pc' = "start"
    /\ pre' = Snapshot
    /\ stack_plans' = <<>>
    /\ cur' = 0
    /\ phase' = "None"
    /\ log' = <<>>
    /\ bookmark_to_pr' = <<>>
    /\ result' = NewResult
    /\ exit' = "none"
    /\ error_arg' = ""
    /\ selected' = {}
    /\ confirmed' = "unasked"
    /\ run_ok' = TRUE
    /\ prev_ok' = (exit = "ok" /\ run_ok)
    /\ UNCHANGED <<World, remote_refs, fetched, prs, failures>>

Next ==
    \/ run_submit
    \/ run_sync
    \/ execute_step
    \/ begin_comments
    \/ write_comment
    \/ finish_execution
    \/ rerun

Spec == Init /\ [][Next]_vars

(***************************************************************************)
(* The same commands started with the options of the command line: scopes, *)
(* --update-only, --draft, --publish, --select, --confirm, sync --stack,   *)
(* and a remote that cannot be selected or parsed.                         *)
(***************************************************************************)
\* a stack whose leaf segment carries two bookmarks
TwinGraph == [stacks |-> << <<Seg(<<"a">>, 1), Seg(<<"b", "d">>, 2)>> >>]

OptGraphs == Graphs \cup {TwinGraph}

\* base of an already open PR: the default branch, or the first parent bookmark
OptBase(G, b) ==
    IF ParentNames(G, b) = {} THEN DefaultBranch
    ELSE NameOrder[Min({Rank(x) : x \in ParentNames(G, b)})]

\* per bookmark: never pushed; or an open PR, ready or draft, on a synced bookmark; or an
\* open PR on a bookmark that has moved since it was pushed
OptStates(G, b) ==
         {[ref |-> "none", has_pr |-> FALSE, base |-> "", draft |-> FALSE]}
    \cup {[ref |-> "synced", has_pr |-> TRUE, base |-> OptBase(G, b), draft |-> d] :
             d \in BOOLEAN}
    \cup {[ref |-> "stale", has_pr |-> TRUE, base |-> OptBase(G, b), draft |-> FALSE]}

\* option records that differ from the default in one respect
OptionSets(G) ==
    LET o == SubmitOptions(FALSE)
    IN       {o}
        \cup {[o EXCEPT !.scope = "Upto", !.upto_bookmark = u] :
                 u \in GraphBookmarks(G) \cup {UnknownBookmark}}
        \cup {[o EXCEPT !.scope = sc] : sc \in {"Only", "Stack"}}
        \cup {[o EXCEPT !.update_only = TRUE], [o EXCEPT !.draft = TRUE],
              [o EXCEPT !.publish = TRUE], [o EXCEPT !.draft = TRUE, !.publish = TRUE],
              [o EXCEPT !.select = TRUE]}
        \cup {[o EXCEPT !.confirm = TRUE, !.dry_run = d] : d \in BOOLEAN}

OptionLines(G) ==
         {[cmd |-> "submit", bookmark |-> b, options |-> o, setup |-> "ok"] :
             b \in GraphBookmarks(G), o \in OptionSets(G)}
    \cup {[cmd |-> "submit", bookmark |-> b, options |-> SubmitOptions(FALSE), setup |-> e] :
             b \in {"b", UnknownBookmark}, e \in Setups}
    \cup {[cmd |-> "sync", bookmark |-> "",
           options |-> [SubmitOptions(FALSE) EXCEPT !.stack = k, !.confirm = c],
           setup |-> "ok"] :
             k \in GraphBookmarks(G) \cup {"", UnknownBookmark}, c \in BOOLEAN}
    \cup {[cmd |-> "sync", bookmark |-> "",
           options |-> [SubmitOptions(FALSE) EXCEPT !.stack = k], setup |-> e] :
             k \in {"", UnknownBookmark}, e \in Setups}

\* the platform and the workspace answer every call of these runs
InitOptions ==
    /\ graph \in OptGraphs
    /\ platform_kind = "GitHub"
    /\ args \in OptionLines(graph)
    /\ \E ch \in [GraphBookmarks(graph) -> UNION {OptStates(graph, b) : b \in GraphBookmarks(graph)}] :
         /\ \A b \in GraphBookmarks(graph) : ch[b] \in OptStates(graph, b)
         /\ remote_refs = [b \in GraphBookmarks(graph) |-> ch[b].ref]
         /\ prs = InitPrs(graph, ch, platform_kind)
    /\ fetched = 0
    /\ pc = "start"
    /\ run = 1
    /\ pre = [remote_refs |-> remote_refs, prs |-> prs, fetched |-> 0]
    /\ stack_plans = <<>>
    /\ cur = 0
    /\ phase = "None"
    /\ log = <<>>
    /\ bookmark_to_pr = <<>>
    /\ result = NewResult
    /\ exit = "none"
    /\ error_arg = ""
    /\ selected = {}
    /\ confirmed = "unasked"
    /\ failures = MaxFailures
    /\ run_ok = TRUE
    /\ prev_ok = FALSE
    /\ url = NoUrl
    /\ repo_info = NotParsed

SpecOptions == InitOptions /\ [][Next]_vars

(***************************************************************************)
(* Platform detection from the remote's URL (platform/detection.rs).  A    *)
(* URL is a sequence of tokens: the characters the patterns look at        *)
(* (":", "/", "@"), a trailing ".git", "%20", and pieces of text that hold *)
(* none of them.                                                           *)
(***************************************************************************)
MaxSlashes == 2     \* a URL ends with at most this many slashes
MaxSegments == 3    \* a GitHub/GitLab path has at most this many segments

None == [some |-> FALSE, v |-> <<>>]

Some(x) == [some |-> TRUE, v |-> x]

\* the literal is in the text at position i
At(text, i, lit) ==
    /\ i >= 1
    /\ i + Len(lit) - 1 <= Len(text)
    /\ SubSeq(text, i, i + Len(lit) - 1) = lit

\* position of the first token t at or after position from, 0 when there is none
IndexFrom(text, t, from) ==
    LET hits == {k \in from..Len(text) : text[k] = t}
    IN  IF hits = {} THEN 0 ELSE Min(hits)

RECURSIVE trim_end_matches(_, _)
\* str::trim_end_matches
trim_end_matches(text, t) ==
    IF text # <<>> /\ text[Len(text)] = t
    THEN trim_end_matches(SubSeq(text, 1, Len(text) - 1), t)
    ELSE text

RECURSIVE split(_, _)
\* str::split: the pieces between the separators, empty pieces kept
split(text, sep) ==
    LET k == IndexFrom(text, sep, 1)
    IN  IF k = 0 THEN <<text>>
        ELSE <<SubSeq(text, 1, k - 1)>> \o split(SubSeq(text, k + 1, Len(text)), sep)

RECURSIVE join(_, _)
\* [&str]::join
join(parts, sep) ==
    IF parts = <<>> THEN <<>>
    ELSE IF Len(parts) = 1 THEN parts[1]
    ELSE parts[1] \o <<sep>> \o join(Tail(parts), sep)

\* the group of "(.+?)(?:\.git)?$" on what is left of the text: the shortest non-empty
\* prefix that leaves nothing or ".git"
lazy_tail(rest) ==
    IF Len(rest) >= 2 /\ rest[Len(rest)] = ".git"
    THEN SubSeq(rest, 1, Len(rest) - 1)
    ELSE rest

Schemes == {"https", "http"}

\* RE_SSH git@[^:]+:(.+?)(?:\.git)?$ : the leftmost match's group 1
RE_SSH(text) ==
    LET colon(i) == IndexFrom(text, ":", i + 2)
        starts   == {i \in DOMAIN text :
                        /\ At(text, i, <<"git", "@">>)
                        /\ colon(i) >= i + 3
                        /\ colon(i) < Len(text)}
    IN  IF starts = {} THEN None
        ELSE Some(<<lazy_tail(SubSeq(text, colon(Min(starts)) + 1, Len(text)))>>)

\* RE_HTTPS https?://[^/]+/(.+?)(?:\.git)?$
RE_HTTPS(text) ==
    LET slash(i) == IndexFrom(text, "/", i + 4)
        starts   == {i \in DOMAIN text :
                        /\ text[i] \in Schemes
                        /\ At(text, i + 1, <<":", "/", "/">>)
                        /\ slash(i) >= i + 5
                        /\ slash(i) < Len(text)}
    IN  IF starts = {} THEN None
        ELSE Some(<<lazy_tail(SubSeq(text, slash(Min(starts)) + 1, Len(text)))>>)

\* ([^/]+)/([^/]+)/ from position from, then the literal, then (.+?)(?:\.git)?$
two_segments_then(text, from, lit) ==
    LET s1 == IndexFrom(text, "/", from)
        s2 == IndexFrom(text, "/", s1 + 1)
        r  == s2 + Len(lit) + 1
    IN  IF s1 >= from + 1 /\ s2 >= s1 + 2 /\ At(text, s2 + 1, lit) /\ r <= Len(text)
        THEN Some(<<SubSeq(text, from, s1 - 1), SubSeq(text, s1 + 1, s2 - 1),
                    lazy_tail(SubSeq(text, r, Len(text)))>>)
        ELSE None

\* RE_AZURE_SSH git@ssh\.dev\.azure\.com:v3/([^/]+)/([^/]+)/(.+?)(?:\.git)?$
RE_AZURE_SSH(text) ==
    LET lit    == <<"git", "@", "ssh.dev.azure.com", ":", "v3", "/">>
        starts == {i \in DOMAIN text :
                      At(text, i, lit) /\ two_segments_then(text, i + 6, <<>>).some}
    IN  IF starts = {} THEN None ELSE two_segments_then(text, Min(starts) + 6, <<>>)

\* RE_AZURE_HTTPS https?://(?:[^@]+@)?dev\.azure\.com/([^/]+)/([^/]+)/_git/(.+?)(?:\.git)?$
\* tried with the user part first, then without it
RE_AZURE_HTTPS(text) ==
    LET host       == <<"dev.azure.com", "/">>
        git        == <<"_git", "/">>
        at(i)      == IndexFrom(text, "@", i + 4)
        withuser(i) == IF at(i) >= i + 5 /\ At(text, at(i) + 1, host)
                       THEN two_segments_then(text, at(i) + 3, git) ELSE None
        nouser(i)  == IF At(text, i + 4, host)
                       THEN two_segments_then(text, i + 6, git) ELSE None
        m(i)       == IF withuser(i).some THEN withuser(i) ELSE nouser(i)
        starts     == {i \in DOMAIN text :
                          /\ text[i] \in Schemes
                          /\ At(text, i + 1, <<":", "/", "/">>)
                          /\ m(i).some}
    IN  IF starts = {} THEN None ELSE m(Min(starts))

\* url::Url::parse(url).host_str() for the URLs of the model: the authority without the
\* user and the port
host_str(text) ==
    IF Len(text) >= 5 /\ text[1] \in Schemes /\ At(text, 2, <<":", "/", "/">>)
    THEN LET slash     == IndexFrom(text, "/", 5)
             authority == SubSeq(text, 5, IF slash = 0 THEN Len(text) ELSE slash - 1)
             ats       == {k \in DOMAIN authority : authority[k] = "@"}
             hostport  == IF ats = {} THEN authority
                          ELSE SubSeq(authority, Max(ats) + 1, Len(authority))
             host      == split(hostport, ":")[1]
         IN  IF host = <<>> THEN None ELSE Some(host)
    ELSE None

extract_hostname(text) ==
    IF At(text, 1, <<"git", "@">>)
    THEN Some(split(SubSeq(text, 3, Len(text)), ":")[1])
    ELSE host_str(text)

\* hosts that end with "." and the domain
Subdomains(domain) ==
    CASE domain = "github.com" -> {"ghe.github.com"}
      [] domain = "gitlab.com" -> {"code.gitlab.com"}
      [] OTHER -> {}

\* hostname == h
is_host(hostname, h) == hostname = <<h>>

\* hostname.ends_with("." + domain)
ends_with_domain(hostname, domain) ==
    hostname # <<>> /\ hostname[Len(hostname)] \in Subdomains(domain)

\* an environment variable that is set and equal to the hostname
env_is(var, hostname) == var # "" /\ hostname = <<var>>

detect_platform(text, env) ==
    IF RE_AZURE_SSH(text).some \/ RE_AZURE_HTTPS(text).some THEN Some("AzureDevOps")
    ELSE LET h == extract_hostname(text)
         IN  IF ~h.some THEN None
             ELSE IF \/ is_host(h.v, "dev.azure.com")
                     \/ is_host(h.v, "ssh.dev.azure.com")
                     \/ env_is(env.AZURE_DEVOPS_HOST, h.v)
                  THEN Some("AzureDevOps")
             ELSE IF \/ is_host(h.v, "github.com")
                     \/ ends_with_domain(h.v, "github.com")
                     \/ env_is(env.GH_HOST, h.v)
                  THEN Some("GitHub")
             ELSE IF \/ is_host(h.v, "gitlab.com")
                     \/ ends_with_domain(h.v, "gitlab.com")
                     \/ env_is(env.GITLAB_HOST, h.v)
                  THEN Some("GitLab")
             ELSE None

\* mutant of decode: the text is taken as it is
decode_nothing(text) == text

\* urlencoding::decode
decode(text) == [k \in DOMAIN text |-> IF text[k] = "%20" THEN " " ELSE text[k]]

PlatformConfig(platform, owner, repo, host) ==
    [platform |-> platform, owner |-> owner, repo |-> repo, host |-> host]

parse_azure_devops_url(text) ==
    LET ssh   == RE_AZURE_SSH(text)
        https == RE_AZURE_HTTPS(text)
        caps  == IF ssh.some THEN ssh.v ELSE https.v
    IN  IF ssh.some \/ https.some
        THEN Ok(PlatformConfig("AzureDevOps",
                               decode(caps[1]) \o <<"/">> \o decode(caps[2]),
                               decode(caps[3]), None))
        ELSE Err("Parse", "")

\* mutant of self_hosted: the hostname is always kept
self_hosted_always(hostname, default_host) == hostname

\* host of the configuration: the hostname unless it is the platform's own
self_hosted(hostname, default_host) ==
    IF hostname.some /\ hostname.v # <<default_host>> THEN hostname ELSE None

parse_repo_info(input, env) ==
    LET text     == trim_end_matches(input, "/")
        platform == detect_platform(text, env)
        hostname == extract_hostname(text)
        ssh      == RE_SSH(text)
        caps     == IF ssh.some THEN ssh ELSE RE_HTTPS(text)
        parts    == split(caps.v[1], "/")
        repo     == parts[Len(parts)]
        owner    == join(SubSeq(parts, 1, Len(parts) - 1), "/")
    IN  IF ~platform.some THEN Err("NoSupportedRemotes", "")
        ELSE IF platform.v = "AzureDevOps" THEN parse_azure_devops_url(text)
        ELSE IF ~caps.some THEN Err("Parse", "")
        ELSE IF Len(parts) < 2 THEN Err("Parse", "")
        ELSE Ok(PlatformConfig(platform.v, owner, repo,
                               self_hosted(hostname,
                                           IF platform.v = "GitHub" THEN "github.com"
                                           ELSE "gitlab.com")))

\* GH_HOST, GITLAB_HOST, AZURE_DEVOPS_HOST: "" when unset
Env(gh, gitlab, azure) == [GH_HOST |-> gh, GITLAB_HOST |-> gitlab, AZURE_DEVOPS_HOST |-> azure]

Envs == {Env("", "", ""), Env("git.corp", "", ""), Env("", "git.corp", ""),
         Env("dev.azure.com", "ssh.dev.azure.com", "")}

\* a piece of a path as it is meant and as it is written in the URL
Piece(plain, written) == [plain |-> plain, written |-> written]

Word(w) == Piece(<<w>>, <<w>>)

GitHosts == {"github.com", "gitlab.com", "ghe.github.com", "code.gitlab.com", "git.corp",
             "example.org"}

Users == {<<>>, <<"user", "@">>, <<"git", "@">>}

PathWords == {Word("acme"), Word("web"), Word("git")}

AzurePieces == {Word("acme"), Piece(<<"My", " ", "Project">>, <<"My", "%20", "Project">>),
                Word("_git")}

\* the text of a remote
render(r) ==
    LET path == join([k \in DOMAIN r.segs |-> r.segs[k].written], "/")
                \o (IF r.dotgit THEN <<".git">> ELSE <<>>)
                \o [k \in 1..r.slashes |-> "/"]
    IN  CASE r.form = "https" ->
                <<r.scheme, ":", "/", "/">> \o r.user \o <<r.host, "/">> \o path
          [] r.form = "ssh" ->
                <<"git", "@", r.host, ":">> \o path
          [] r.form = "azure_https" ->
                <<r.scheme, ":", "/", "/">> \o r.user \o <<r.host, "/">> \o
                join(<<r.segs[1].written, r.segs[2].written, <<"_git">>, r.segs[3].written>>, "/")
                \o (IF r.dotgit THEN <<".git">> ELSE <<>>)
                \o [k \in 1..r.slashes |-> "/"]
          [] r.form = "azure_ssh" ->
                <<"git", "@", r.host, ":", "v3", "/">> \o path

Remote(form, scheme, user, host, segs, dotgit, slashes) ==
    [form |-> form, scheme |-> scheme, user |-> user, host |-> host, segs |-> segs,
     dotgit |-> dotgit, slashes |-> slashes]

Paths(words, lens) == UNION {[1..n -> words] : n \in lens}

\* remotes of GitHub and GitLab shape, on hosts of either, of neither, and self-hosted
GitRemotes ==
    {Remote("https", sc, u, h, p, g, n) :
        sc \in Schemes, u \in Users, h \in GitHosts, p \in Paths(PathWords, 2..MaxSegments),
        g \in BOOLEAN, n \in 0..MaxSlashes}
    \cup
    {Remote("ssh", "", <<>>, h, p, g, n) :
        h \in GitHosts, p \in Paths(PathWords, 2..MaxSegments), g \in BOOLEAN,
        n \in 0..MaxSlashes}

\* remotes of the two Azure DevOps shapes
AzureRemotes ==
    {Remote("azure_https", sc, u, "dev.azure.com", p, g, n) :
        sc \in Schemes, u \in Users, p \in Paths(AzurePieces, {3}), g \in BOOLEAN,
        n \in 0..MaxSlashes}
    \cup
    {Remote("azure_ssh", "", <<>>, "ssh.dev.azure.com", p, g, n) :
        p \in Paths(AzurePieces, {3}), g \in BOOLEAN, n \in 0..MaxSlashes}

\* the command reads the remote's URL; nothing else has happened yet
InitUrl ==
    /\ \E r \in GitRemotes \cup AzureRemotes, e \in Envs :
          url = [remote |-> r, text |-> render(r), env |-> e]
    /\ repo_info = NotParsed
    /\ graph = LinearGraph
    /\ platform_kind = "GitHub"
    /\ args = [cmd |-> "submit", bookmark |-> "a", options |-> SubmitOptions(FALSE),
               setup |-> "ok"]
    /\ remote_refs = [b \in GraphBookmarks(graph) |-> "none"]
    /\ prs = <<>>
    /\ fetched = 0
    /\ pc = "remote"
    /\ run = 1
    /\ pre = [remote_refs |-> remote_refs, prs |-> prs, fetched |-> 0]
    /\ stack_plans = <<>>
    /\ cur = 0
    /\ phase = "None"
    /\ log = <<>>
    /\ bookmark_to_pr = <<>>
    /\ result = NewResult
    /\ exit = "none"
    /\ error_arg = ""
    /\ selected = {}
    /\ confirmed = "unasked"
    /\ failures = 0
    /\ run_ok = TRUE
    /\ prev_ok = FALSE

\* let platform_config = parse_repo_info(&remote_info.url)
read_remote ==
    /\ pc = "remote"
    /\ repo_info' = parse_repo_info(url.text, url.env)
    /\ pc' = "start"
    /\ UNCHANGED <<graph, platform_kind, args, url, remote_refs, fetched, prs, run, pre,
                   stack_plans, cur, phase, log, bookmark_to_pr, result, exit, Told,
                   failures, run_ok, prev_ok>>

NextUrl == read_remote

SpecUrl == InitUrl /\ [][NextUrl]_vars

(***************************************************************************)
(* Properties                                                              *)
(***************************************************************************)
\* steps of the current plan that the executor had reached before position k of the log
DoneBefore(k) == {log[j].step : j \in 1..(k - 1)}

\* C1: In the order in which execute_submission carries a plan out, the push of a
\* bookmark comes before every PR creation and every PR base update whose head or
\* whose base is that bookmark.
C1_PushBeforePr ==
    \A k \in DOMAIN log :
        log[k].step.kind \in PrKinds =>
            \A p \in Plan.execution_steps :
                (p.kind = "Push" /\ p.bookmark \in {log[k].step.bookmark, log[k].step.base})
                    => p \in DoneBefore(k)

\* C1 witness: a PR has been created or re-based for which the plan pushed both its
\* head and its base.
C1_Witness ==
    \E k \in DOMAIN log :
        /\ log[k].step.kind \in PrKinds
        /\ log[k].outcome = "ok"
        /\ \E p, q \in Plan.execution_steps :
              /\ p.kind = "Push" /\ p.bookmark = log[k].step.bookmark
              /\ q.kind = "Push" /\ q.bookmark = log[k].step.base

Core(P) == [n \in DOMAIN P |-> PullRequest(P, n)]

\* C3: Stack comments are written last: a comment is written only when every step of the
\* plan has been carried out, and once Phase::AddingComments is entered no ref and no PR
\* head, base or draft flag changes any more.
C3_CommentsLast ==
    /\ [](/\ \A k \in DOMAIN log :
               log[k].step.kind = "Comment" => Plan.execution_steps \subseteq DoneBefore(k)
          /\ phase = "AddingComments" => Plan.execution_steps \subseteq Processed)
    /\ [][(phase = "AddingComments" /\ phase' = "AddingComments")
             => (Core(prs') = Core(prs) /\ remote_refs' = remote_refs)]_vars

\* C3 witness: a comment has been written in a run that pushed and created before.
C3_Witness ==
    /\ phase = "AddingComments"
    /\ \E i, j, k \in DOMAIN log :
          /\ log[i].step.kind = "Push" /\ log[i].outcome = "ok"
          /\ log[j].step.kind = "CreatePr" /\ log[j].outcome = "ok"
          /\ log[k].step.kind = "Comment" /\ log[k].outcome = "created"

\* C4: With dry_run a submit or sync run mutates nothing: no fetch, no push, no PR
\* creation, base update or publish, no comment write; remote refs and platform state
\* stay what they were before the run.
C4_DryRunNoMutation ==
    args.options.dry_run =>
        /\ remote_refs = pre.remote_refs
        /\ prs = pre.prs
        /\ fetched = pre.fetched
        /\ \A k \in DOMAIN log : log[k].outcome = "dry"

\* C4 witness: a dry sync run has gone through a plan that pushes, creates and comments.
C4_Witness ==
    /\ args.options.dry_run
    /\ args.cmd = "sync"
    /\ pc = "done"
    /\ \E i, j, k \in DOMAIN log :
          /\ log[i].step.kind = "Push"
          /\ log[j].step.kind = "CreatePr"
          /\ log[k].step.kind = "Comment"

\* a step depends on the push of m when m is the step's head or base bookmark or a
\* bookmark below them in the stack
DependsOn(s, pushed) == pushed.seg <= s.seg

FailedSteps == {log[k].step : k \in {k \in DOMAIN log : log[k].outcome = "failed"}}

\* C5: When the push of a bookmark m fails, the failure is recorded in result.errors, no
\* PR is created or re-based whose head or base depends on m, and every step that depends
\* on no failed step is still executed.
C5_PushFailureIsolation ==
    /\ \A m \in FailedSteps :
          m.kind = "Push" =>
              /\ \E e \in Range(result.errors) : e.kind = "Push" /\ e.bookmark = m.bookmark
              /\ \A k \in DOMAIN log :
                    (log[k].step.kind \in PrKinds /\ DependsOn(log[k].step, m))
                        => log[k].outcome = "skipped"
    /\ (phase \in {"AddingComments", "Complete"} /\ ~DryRun) =>
          \A s \in Plan.execution_steps :
              \/ Outcome(s) \in {"ok", "failed"}
              \/ \E f \in FailedSteps : f # s /\ DependsOn(s, f)

\* C5 witness: the push of the middle bookmark failed; the PR below it was created, the
\* two PR steps at and above it were not carried out, and the leaf was still pushed.
C5_Witness ==
    /\ phase = "AddingComments"
    /\ \E m \in FailedSteps :
          /\ m.kind = "Push" /\ m.seg = 2
          /\ \E a, b, c, d \in Plan.execution_steps :
                /\ a.kind = "CreatePr" /\ a.seg = 1 /\ Outcome(a) = "ok"
                /\ b.kind \in PrKinds /\ b.seg = 2 /\ Outcome(b) = "skipped"
                /\ c.kind \in PrKinds /\ c.seg = 3 /\ Outcome(c) = "skipped"
                /\ d.kind = "Push" /\ d.seg = 3 /\ Outcome(d) = "ok"

\* every bookmark of the analysis is synced and has open PRs, all with the expected base
SyncedRemote(analysis, refs, P) ==
    \A i \in DOMAIN analysis.segments :
        LET b == analysis.segments[i].bookmark.name
            e == IF i = 1 THEN DefaultBranch ELSE analysis.segments[i - 1].bookmark.name
        IN  /\ refs[b] = "synced"
            /\ \E n \in DOMAIN P : P[n].head_ref = b
            /\ \A n \in DOMAIN P : P[n].head_ref = b => P[n].base_ref = e

\* C6: Against a synced remote (every bookmark synced, an open PR with the expected base
\* for every segment) the plan has no bookmark to push, no PR to create and no base to
\* update.
C6_PlannerIdempotent ==
    \A i \in DOMAIN stack_plans :
        SyncedRemote(stack_plans[i].analysis, pre.remote_refs, pre.prs) =>
            /\ stack_plans[i].plan.bookmarks_needing_push = <<>>
            /\ stack_plans[i].plan.prs_to_create = <<>>
            /\ stack_plans[i].plan.prs_to_update_base = <<>>
            /\ stack_plans[i].plan.execution_steps = {}

\* C6 witness: a plan for a three-segment stack was made against a synced remote.
C6_Witness ==
    /\ run = 1
    /\ \E i \in DOMAIN stack_plans :
          /\ Len(stack_plans[i].analysis.segments) = 3
          /\ SyncedRemote(stack_plans[i].analysis, pre.remote_refs, pre.prs)

\* every comment of P that is no stack comment is in Q at the same place, unchanged
KeepsOtherComments(P, Q) ==
    \A n \in DOMAIN P : \A t \in DOMAIN P[n].threads : \A c \in DOMAIN P[n].threads[t].comments :
        P[n].threads[t].comments[c].content # StackBody =>
            /\ n \in DOMAIN Q
            /\ t \in DOMAIN Q[n].threads
            /\ c \in DOMAIN Q[n].threads[t].comments
            /\ Q[n].threads[t].comments[c] = P[n].threads[t].comments[c]

\* the first run went through for real and reported success
AfterGoodRun == run >= 2 /\ prev_ok /\ ~args.options.dry_run

\* C7 (PR and ref part): after a run that succeeded, the second run plans nothing,
\* creates no PR, changes no base, publishes nothing and pushes nothing.
C7_SecondRunKeepsPrs ==
    AfterGoodRun =>
        /\ Core(prs) = Core(pre.prs)
        /\ remote_refs = pre.remote_refs
        /\ \A i \in DOMAIN stack_plans : stack_plans[i].plan.execution_steps = {}

\* C7: Running analyse, plan and execute again after a run that succeeded leaves the
\* platform as the first run left it: the second run creates no PR, changes no base,
\* publishes nothing, pushes nothing, and writes to stack comments only, so every other
\* comment is what it was.
C7_ExecutorIdempotent ==
    AfterGoodRun =>
        /\ Core(prs) = Core(pre.prs)
        /\ remote_refs = pre.remote_refs
        /\ KeepsOtherComments(pre.prs, prs)

\* C7 witness: the second run has ended after a first run that pushed, re-based and
\* created; the second run refreshed a stack comment.
C7_Witness ==
    /\ run = 2
    /\ prev_ok
    /\ pc = "done"
    /\ ~args.options.dry_run
    /\ Len(prs) > Len(InitPrs(graph, [b \in GraphBookmarks(graph) |->
                                          [has_pr |-> FALSE, base |-> "", ref |-> "none",
                                           draft |-> FALSE]],
                              platform_kind))
    /\ \E n \in DOMAIN prs : prs[n].base_ref \notin {DefaultBranch, OtherBranch}
    /\ \E k \in DOMAIN log : log[k].outcome = "updated"

\* the comments of PR n, by thread and position, that carry the prefix sentinel
StackComments(P, n) ==
    {tc \in UNION {{<<t, c>> : c \in DOMAIN P[n].threads[t].comments} :
                      t \in DOMAIN P[n].threads} :
        P[n].threads[tc[1]].comments[tc[2]].content = StackBody}

\* C8: After any number of executions every PR carries at most one comment with the
\* stack-comment prefix sentinel, and a new stack comment is created only on a PR that
\* carries none.
C8_OneStackComment ==
    \A n \in DOMAIN prs : Cardinality(StackComments(prs, n)) <= 1

\* C8 on GitHub, where comment ids are unique: at most one stack comment per PR
C8_OneStackCommentGitHub ==
    platform_kind = "GitHub" => C8_OneStackComment

\* C8 witness on GitHub: a run found the stack comment of a PR and updated it
C8_WitnessGitHub ==
    /\ platform_kind = "GitHub"
    /\ \E k \in DOMAIN log : log[k].outcome = "updated"

\* C9: result.success is true exactly when no push, PR creation, base update or publish
\* failed; a failed stack-comment write is appended to result.errors as a non-fatal error
\* and leaves success as it is.
C9_SuccessIffNoFatal ==
    /\ result.success =
          (\A k \in DOMAIN log : log[k].outcome = "failed" => log[k].step.kind = "Comment")
    /\ \A k \in DOMAIN log :
          (log[k].step.kind = "Comment" /\ log[k].outcome = "failed") =>
              \E e \in Range(result.errors) :
                  e.kind = "Comment" /\ e.bookmark = log[k].step.bookmark /\ ~e.fatal
    /\ \A e \in Range(result.errors) :
          e.fatal = (e.kind \in {"Push", "CreatePr", "UpdateBase", "PublishPr"})

\* C9 witness: a stack-comment write failed in a run that pushed and created, and the
\* run has ended with success still true.
C9_Witness ==
    /\ pc = "done"
    /\ result.success
    /\ \E k \in DOMAIN log : log[k].step.kind = "Comment" /\ log[k].outcome = "failed"
    /\ \E k \in DOMAIN log : log[k].step.kind = "CreatePr" /\ log[k].outcome = "ok"

\* segment j of the stack of the graph that is analysed for target
GraphSegment(G, target, j) == G.stacks[find_stack(G, target)][j]

\* the segments form a base chain over the graph's segments, trunk first
BaseChain(G, analysis) ==
    LET segs == analysis.segments
    IN  /\ segs # <<>>
        /\ segs[1].base_branch = DefaultBranch
        /\ \A i \in DOMAIN segs :
              /\ SegHas(GraphSegment(G, analysis.target_bookmark, i), segs[i].bookmark.name)
              /\ i > 1 => segs[i].base_branch = segs[i - 1].bookmark.name
        /\ segs[Len(segs)].bookmark.name = analysis.target_bookmark

\* C10: For every target bookmark of the graph the segments analyze_submission returns
\* form a base chain: the first segment's base is the default branch and the base of
\* every later segment is the representative bookmark of the segment before it.
C10_BaseChain ==
    /\ \A b \in GraphBookmarks(graph) :
          BaseChain(graph, analyze_submission(graph, b, remote_refs))
    /\ \A i \in DOMAIN stack_plans : BaseChain(graph, stack_plans[i].analysis)

\* C10 witness: an analysis was made of a stack whose first segment carries two
\* bookmarks and is not the target's; the target's base is that segment's representative.
C10_Witness ==
    /\ graph = SharedGraph
    /\ \E i \in DOMAIN stack_plans :
          LET a == stack_plans[i].analysis
          IN  /\ Len(a.segments) = 2
              /\ Len(GraphSegment(graph, a.target_bookmark, 1).bookmarks) = 2
              /\ a.segments[2].base_branch = a.segments[1].bookmark.name

\* the entries of a plan list that are about the bookmark
EntriesFor(list, name) == {k \in DOMAIN list : list[k].bookmark.name = name}

\* C11: For every segment the planner makes exactly one decision: with no open PR on the
\* segment's bookmark the segment is in prs_to_create (once) and not in
\* prs_to_update_base; with an open PR whose base differs from the expected base it is in
\* prs_to_update_base (once) and not in prs_to_create; with an open PR on the expected
\* base it is in neither.
C11_OneDecision ==
    \A i \in DOMAIN stack_plans :
        LET pl   == stack_plans[i].plan
            segs == pl.segments
        IN  \A k \in DOMAIN segs :
                LET name    == segs[k].bookmark.name
                    open    == {n \in DOMAIN pre.prs : pre.prs[n].head_ref = name}
                    exp     == IF k = 1 THEN DefaultBranch ELSE segs[k - 1].bookmark.name
                    creates == Cardinality(EntriesFor(pl.prs_to_create, name))
                    updates == Cardinality(EntriesFor(pl.prs_to_update_base, name))
                IN  IF open = {} THEN creates = 1 /\ updates = 0
                    ELSE IF pre.prs[Min(open)].base_ref # exp THEN creates = 0 /\ updates = 1
                    ELSE creates = 0 /\ updates = 0

\* C11 witness: one plan holds a segment to create, a segment to re-base and a segment
\* that needs neither.
C11_Witness ==
    \E i \in DOMAIN stack_plans :
        LET pl == stack_plans[i].plan
        IN  /\ Len(pl.segments) = 3
            /\ Len(pl.prs_to_create) = 1
            /\ Len(pl.prs_to_update_base) = 1

\* a submit run that got as far as build_analysis
Analysed ==
    /\ args.cmd = "submit"
    /\ pc # "start"
    /\ ~(args.options.draft /\ args.options.publish)
    /\ args.setup = "ok"
    /\ args.bookmark \in GraphBookmarks(graph)

\* the standard analysis of the target, made when the run began
TargetAnalysis == analyze_submission(graph, args.bookmark, pre.remote_refs)

\* nothing was fetched, pushed or changed on the platform in this run
Untouched == remote_refs = pre.remote_refs /\ prs = pre.prs /\ fetched = pre.fetched

C12_WitnessAbsent ==
    /\ Analysed
    /\ args.options.scope = "Upto"
    /\ args.options.upto_bookmark \in GraphBookmarks(graph)
    /\ exit = "InvalidArgument"

\* C13: With --only the analysis holds exactly the target's segment; when that segment
\* is not the first of the stack and no open PR has the parent bookmark as head, the run
\* fails with InvalidArgument citing the parent bookmark, and nothing has been pushed or
\* changed.
C13_Only ==
    (Analysed /\ args.options.scope = "Only") =>
        LET segs == TargetAnalysis.segments
            t    == CHOOSE i \in DOMAIN segs : segs[i].bookmark.name = args.bookmark
        IN  IF t > 1 /\ ~\E n \in DOMAIN pre.prs : pre.prs[n].head_ref = segs[t - 1].bookmark.name
            THEN /\ exit = "InvalidArgument"
                 /\ error_arg = segs[t - 1].bookmark.name
                 /\ stack_plans = <<>>
                 /\ log = <<>>
                 /\ Untouched
            ELSE /\ Len(stack_plans) = 1
                 /\ exit \in {"none", "ok"}
                 /\ stack_plans[1].analysis.segments = <<segs[t]>>
                 /\ stack_plans[1].analysis.target_bookmark = args.bookmark

\* C13 witness: submit c --only on a -> b -> c with PRs on a and c and none on b has
\* failed.
C13_Witness ==
    /\ Analysed
    /\ args.options.scope = "Only"
    /\ Len(TargetAnalysis.segments) = 3
    /\ \E n \in DOMAIN pre.prs : pre.prs[n].head_ref = args.bookmark
    /\ exit = "InvalidArgument"
    /\ error_arg = "b"

\* C13 second witness: --only of a mid-stack bookmark whose parent has a PR has run.
C13_WitnessAccepted ==
    /\ Analysed
    /\ args.options.scope = "Only"
    /\ Len(TargetAnalysis.segments) = 2
    /\ pc = "done"
    /\ exit = "ok"
    /\ log # <<>>

\* the bookmarks on the segments that come after the bookmark's segment, in any stack
Descendants(G, b) ==
    {d \in GraphBookmarks(G) :
        \E i \in DOMAIN G.stacks : \E j, k \in DOMAIN G.stacks[i] :
            j < k /\ SegHas(G.stacks[i][j], b) /\ SegHas(G.stacks[i][k], d)}

\* C14: With --stack the analysis is the union of the target's analysis and the analyses
\* of every descendant bookmark of the target in every stack; every descendant is the
\* bookmark of a segment of the result, and no bookmark name is on more than one segment.
C14_Stack ==
    (Analysed /\ args.options.scope = "Stack") =>
        /\ Len(stack_plans) = 1
        /\ LET R == stack_plans[1].analysis.segments
                D == Descendants(graph, args.bookmark)
           IN  /\ Range(R) = Range(TargetAnalysis.segments) \cup
                     UNION {Range(analyze_submission(graph, d, pre.remote_refs).segments) : d \in D}
               /\ \A d \in D : \E i \in DOMAIN R : R[i].bookmark.name = d
               /\ \A i, j \in DOMAIN R : R[i].bookmark.name = R[j].bookmark.name => i = j

\* C14 witness: submit a --stack on the graph a -> b, a -> d has gone through with the
\* three segments a, b, d.
C14_Witness ==
    /\ Analysed
    /\ args.options.scope = "Stack"
    /\ Cardinality(Descendants(graph, args.bookmark)) = 2
    /\ Len(graph.stacks) = 2
    /\ Len(stack_plans) = 1
    /\ Len(stack_plans[1].analysis.segments) = 3
    /\ pc = "done"

\* the plan of a submit run that got as far as planning
SubmitPlan == stack_plans[1].plan

\* the bookmark is the head of an open PR
HasOpenPr(P, b) == \E n \in DOMAIN P : P[n].head_ref = b

\* the PRs created since the run began
CreatedPrs == (DOMAIN prs) \ (DOMAIN pre.prs)

\* the bookmarks whose remote ref moved since the run began
PushedBookmarks == {b \in DOMAIN remote_refs : remote_refs[b] # pre.remote_refs[b]}

\* --update-only as far as the plan's lists go: nothing to create, and pushes only of
\* bookmarks that have an open PR
C15_UpdateOnlyLists ==
    (Analysed /\ args.options.update_only) =>
        /\ Len(stack_plans) = 1
        /\ SubmitPlan.prs_to_create = <<>>
        /\ \A k \in DOMAIN SubmitPlan.bookmarks_needing_push :
              HasOpenPr(pre.prs, SubmitPlan.bookmarks_needing_push[k].name)

\* C15: With --update-only the plan has no PR to create and pushes only bookmarks that
\* have an open PR, and the execution creates no PR and pushes no bookmark that had no
\* PR before the run.
C15_UpdateOnly ==
    (Analysed /\ args.options.update_only) =>
        /\ C15_UpdateOnlyLists
        /\ CreatedPrs = {}
        /\ \A b \in PushedBookmarks : HasOpenPr(pre.prs, b)

\* C15 witness: an --update-only run is over, its plan listed no PR to create, and a PR
\* was created for a bookmark that was pushed without having had one.
C15_Witness ==
    /\ Analysed
    /\ args.options.update_only
    /\ pc = "done"
    /\ SubmitPlan.prs_to_create = <<>>
    /\ \E n \in CreatedPrs : prs[n].head_ref \in PushedBookmarks

\* --draft as far as the plan's list goes: every entry of prs_to_create is a draft
C16_DraftList ==
    (Analysed /\ args.options.draft) =>
        /\ Len(stack_plans) = 1
        /\ \A k \in DOMAIN SubmitPlan.prs_to_create : SubmitPlan.prs_to_create[k].draft

\* C16: With --draft every PR the run creates is a draft: each create_pr_with_options
\* call is made with draft = true, and the PRs that existed keep their draft state.
C16_Draft ==
    (Analysed /\ args.options.draft) =>
        /\ C16_DraftList
        /\ \A k \in DOMAIN log : log[k].step.kind = "CreatePr" => log[k].step.draft
        /\ \A n \in CreatedPrs : prs[n].is_draft
        /\ \A n \in DOMAIN pre.prs : prs[n].is_draft = pre.prs[n].is_draft

\* C16 witness: a --draft run is over, its plan listed a draft to create, and the PR that
\* was created for it is ready for review.
C16_Witness ==
    /\ Analysed
    /\ args.options.draft
    /\ pc = "done"
    /\ \E k \in DOMAIN SubmitPlan.prs_to_create :
          /\ SubmitPlan.prs_to_create[k].draft
          /\ \E n \in CreatedPrs :
                /\ prs[n].head_ref = SubmitPlan.prs_to_create[k].bookmark.name
                /\ ~prs[n].is_draft

\* the open PRs, as they were when the run began, of the segments of the plan
StackPrs ==
    {find_existing_pr(pre.prs, SubmitPlan.segments[i].bookmark.name) :
        i \in DOMAIN SubmitPlan.segments} \ {0}

\* --publish as far as the plan's list goes: prs_to_publish holds the draft PRs of the
\* stack and no other
C17_PublishList ==
    (Analysed /\ args.options.publish) =>
        /\ Len(stack_plans) = 1
        /\ Range(SubmitPlan.prs_to_publish) =
              {PullRequest(pre.prs, n) : n \in {m \in StackPrs : pre.prs[m].is_draft}}

\* C17: With --publish prs_to_publish is exactly the draft PRs of the stack, PRs that are
\* not drafts are not touched, and after a successful execution no PR of the stack is a
\* draft.
C17_Publish ==
    (Analysed /\ args.options.publish) =>
        /\ C17_PublishList
        /\ \A n \in StackPrs : ~pre.prs[n].is_draft => ~prs[n].is_draft
        /\ (pc = "done" /\ exit = "ok" /\ result.success /\ ~args.options.dry_run) =>
              \A n \in StackPrs : ~prs[n].is_draft

\* C17 witness: a --publish run has ended in success with a draft in prs_to_publish that
\* is still a draft.
C17_Witness ==
    /\ Analysed
    /\ args.options.publish
    /\ pc = "done"
    /\ exit = "ok"
    /\ result.success
    /\ \E k \in DOMAIN SubmitPlan.prs_to_publish :
          prs[SubmitPlan.prs_to_publish[k].number].is_draft

\* C18: With --select a non-empty selection I of segment indices is accepted exactly when
\* max(I) - min(I) + 1 = |I|; a selection with a gap fails with InvalidArgument naming
\* the first unselected bookmark between its ends, before any plan is carried out.
C18_SelectContiguous ==
    (Analysed /\ args.options.select /\ selected # {}) =>
        LET segs == TargetAnalysis.segments
            lo   == Min(selected)
            hi   == Max(selected)
        IN  IF hi - lo + 1 = Cardinality(selected)
            THEN /\ exit \in {"none", "ok"}
                 /\ Len(stack_plans) = 1
                 /\ {stack_plans[1].plan.segments[i].bookmark.name :
                        i \in DOMAIN stack_plans[1].plan.segments}
                      = {segs[i].bookmark.name : i \in selected}
            ELSE /\ exit = "InvalidArgument"
                 /\ \E g \in lo..hi :
                       /\ g \notin selected
                       /\ \A j \in lo..(g - 1) : j \in selected
                       /\ error_arg = segs[g].bookmark.name
                 /\ stack_plans = <<>>
                 /\ log = <<>>
                 /\ Untouched

\* C18 witness: the first and the third of three segments were selected and the run has
\* ended.
C18_Witness ==
    /\ Analysed
    /\ args.options.select
    /\ selected = {1, 3}
    /\ Len(TargetAnalysis.segments) = 3
    /\ pc = "done"

\* C18 witness of an accepted selection: the last two of three segments, carried out.
C18_WitnessAccepted ==
    /\ Analysed
    /\ args.options.select
    /\ selected = {2, 3}
    /\ Len(TargetAnalysis.segments) = 3
    /\ pc = "done"
    /\ exit = "ok"

\* the run has ended with one of the errors raised ahead of the engine: --draft with
\* --publish, no usable remote, an unparsable remote URL, an unknown target bookmark or an
\* unknown --stack bookmark
FailedFast ==
    /\ pc = "done"
    /\ \/ exit \in {"RemoteNotFound", "Parse", "BookmarkNotFound"}
       \/ exit = "InvalidArgument" /\ args.cmd = "submit"
                                   /\ args.options.draft /\ args.options.publish

\* submit alone fails fast: its early errors leave refs, PRs, comments and the fetch count
\* as they were
C19_SubmitFailFast ==
    (FailedFast /\ args.cmd = "submit") => (Untouched /\ log = <<>> /\ stack_plans = <<>>)

\* C19: In submit and in sync, argument validation, remote selection, URL parsing and
\* bookmark lookup fail before any fetch, push, PR creation or update, or comment write.
C19_FailFast ==
    FailedFast => (Untouched /\ log = <<>> /\ stack_plans = <<>>)

\* C19 witness: sync --stack with a bookmark of no stack has ended in BookmarkNotFound
\* after fetching from the remote.
C19_Witness ==
    /\ args.cmd = "sync"
    /\ pc = "done"
    /\ exit = "BookmarkNotFound"
    /\ error_arg = args.options.stack
    /\ fetched = pre.fetched + 1

\* main returns the command's Result: Ok(()) ends the process with status 0, an Err of
\* any kind is reported and ends it with status 1
exit_code(e) == IF e = "ok" THEN 0 ELSE 1

\* the errors of the user's input or setup
UserErrors == {"InvalidArgument", "BookmarkNotFound", "RemoteNotFound", "Parse"}

\* an execute_submission of the run returned a result with success = false
EngineFailed == exit = "ok" /\ ~run_ok

\* exit codes as far as they hold: a user error ends with 1, a run that succeeded with 0
C20_UserErrorIsOne ==
    (pc = "done") =>
        /\ exit \in UserErrors => exit_code(exit) = 1
        /\ (exit = "ok" /\ run_ok) => exit_code(exit) = 0

\* C20: The process ends with 0 only when the command succeeded, with 1 on a user error,
\* and with 2 when the engine failed (a result with success = false).
C20_ExitCodes ==
    (pc = "done") =>
        /\ exit_code(exit) = 0 => (exit = "ok" /\ run_ok)
        /\ exit \in UserErrors => exit_code(exit) = 1
        /\ EngineFailed => exit_code(exit) = 2

\* C20 witness: a run that was no dry run has ended with a fatal error in its result, and
\* the process ends with 0.
C20_Witness ==
    /\ pc = "done"
    /\ ~args.options.dry_run
    /\ ~result.success
    /\ result.errors # <<>>
    /\ EngineFailed
    /\ exit_code(exit) = 0

\* the URL has been parsed
Parsed == pc = "start" /\ repo_info # NotParsed

\* the platform whose host the remote names, "" when it is the host of none
PlatformOfHost(h, e) ==
    IF h \in {"github.com", "ghe.github.com"} \/ h = e.GH_HOST THEN "GitHub"
    ELSE IF h \in {"gitlab.com", "code.gitlab.com"} \/ h = e.GITLAB_HOST THEN "GitLab"
    ELSE ""

DefaultHost(platform) == IF platform = "GitHub" THEN "github.com" ELSE "gitlab.com"

\* the plain text of the pieces, joined by "/"
PlainPath(pieces) == join([k \in DOMAIN pieces |-> pieces[k].plain], "/")

\* C21: For a GitHub or GitLab URL, HTTPS or SSH, with or without ".git" and trailing
\* slashes, parse_repo_info gives the last path segment as repo and the segments before
\* it joined by "/" as owner, with no host exactly when the hostname is the platform's
\* default host; a URL on a host of no supported platform fails with NoSupportedRemotes.
C21_ParseRepoInfo ==
    (Parsed /\ url.remote.form \in {"https", "ssh"}) =>
        LET r        == url.remote
            platform == PlatformOfHost(r.host, url.env)
            n        == Len(r.segs)
        IN  IF platform = ""
            THEN repo_info.err = "NoSupportedRemotes"
            ELSE /\ repo_info.err = ""
                 /\ repo_info.value.platform = platform
                 /\ repo_info.value.repo = r.segs[n].plain
                 /\ repo_info.value.owner = PlainPath(SubSeq(r.segs, 1, n - 1))
                 /\ ~repo_info.value.host.some <=> r.host = DefaultHost(platform)
                 /\ repo_info.value.host.some => repo_info.value.host.v = <<r.host>>

\* C21 witness: an SSH URL of a self-hosted GitLab with nested groups, ".git" and a
\* trailing slash has been parsed.
C21_Witness ==
    /\ Parsed
    /\ url.remote.form = "ssh"
    /\ url.remote.host = "git.corp"
    /\ Len(url.remote.segs) = 3
    /\ url.remote.dotgit
    /\ url.remote.slashes = 1
    /\ repo_info.err = ""
    /\ repo_info.value.platform = "GitLab"
    /\ repo_info.value.host.some
    /\ Len(repo_info.value.owner) = 3

\* C21 witness of the error: a URL on a host of no supported platform has been parsed.
C21_WitnessUnsupported ==
    /\ Parsed
    /\ url.remote.host = "example.org"
    /\ repo_info.err = "NoSupportedRemotes"

\* C22: For an Azure DevOps URL of either form parse_repo_info gives platform
\* AzureDevOps, owner "{org}/{project}" and repo "{repo}", each URL-decoded and without a
\* ".git" suffix, and no host, also when the hostname is some other platform's in the
\* environment.
C22_ParseAzureDevOps ==
    (Parsed /\ url.remote.form \in {"azure_https", "azure_ssh"}) =>
        LET r == url.remote
        IN  /\ repo_info.err = ""
            /\ repo_info.value.platform = "AzureDevOps"
            /\ repo_info.value.owner = r.segs[1].plain \o <<"/">> \o r.segs[2].plain
            /\ repo_info.value.repo = r.segs[3].plain
            /\ repo_info.value.host = None

\* C22 witness: an HTTPS URL with a user, an encoded project name and ".git" has been
\* parsed while GH_HOST names dev.azure.com.
C22_Witness ==
    /\ Parsed
    /\ url.remote.form = "azure_https"
    /\ url.remote.user # <<>>
    /\ url.remote.dotgit
    /\ url.remote.segs[2].written # url.remote.segs[2].plain
    /\ url.env.GH_HOST = "dev.azure.com"
    /\ repo_info.err = ""
    /\ repo_info.value.owner = <<"acme", "/", "My", " ", "Project">>

\* C22 witness of the SSH form with an encoded repository name.
C22_WitnessSsh ==
    /\ Parsed
    /\ url.remote.form = "azure_ssh"
    /\ url.remote.segs[3].written # url.remote.segs[3].plain
    /\ repo_info.err = ""
    /\ repo_info.value.repo = <<"My", " ", "Project">>

\* the command returned Ok without a call of execute_submission, and no ref, PR or
\* comment is other than it was
ReturnedUnexecuted ==
    /\ pc = "done"
    /\ exit = "ok"
    /\ stack_plans = <<>>
    /\ log = <<>>
    /\ remote_refs = pre.remote_refs
    /\ prs = pre.prs

C23_WitnessSubmit ==
    /\ args.cmd = "submit"
    /\ confirmed = "no"
    /\ pc = "done"
    /\ prs = <<>>

\* C23 witness of --select with nothing selected.
C23_WitnessNoneSelected ==
    /\ Analysed
    /\ args.options.select
    /\ selected = {}
    /\ pc = "done"

\* C23 witness of a dry run with --confirm that went on to the executor unasked.
C23_WitnessDryRun ==
    /\ args.options.confirm
    /\ args.options.dry_run
    /\ confirmed = "unasked"
    /\ pc = "execute"

\* the bookmarks of the steps of one kind
StepBookmarks(plan, kind) == {st.bookmark : st \in {x \in plan.execution_steps : x.kind = kind}}

\* the lists of the plan and its steps say the same
Consistent(plan) ==
    /\ StepBookmarks(plan, "Push") =
          {plan.bookmarks_needing_push[k].name : k \in DOMAIN plan.bookmarks_needing_push}
    /\ {<<st.bookmark, st.draft>> : st \in {x \in plan.execution_steps : x.kind = "CreatePr"}} =
          {<<plan.prs_to_create[k].bookmark.name, plan.prs_to_create[k].draft>> :
              k \in DOMAIN plan.prs_to_create}
    /\ StepBookmarks(plan, "UpdateBase") =
          {plan.prs_to_update_base[k].bookmark.name : k \in DOMAIN plan.prs_to_update_base}
    /\ {st.pr : st \in {x \in plan.execution_steps : x.kind = "PublishPr"}} =
          {plan.prs_to_publish[k].number : k \in DOMAIN plan.prs_to_publish}

\* execute_submission has been called by run_submit
SubmitExecuting == args.cmd = "submit" /\ pc = "execute"

\* the plan as the planner returns it is consistent: submit without --update-only,
\* --draft, --publish and --select
C24_PlannerConsistent ==
    (/\ SubmitExecuting
     /\ ~args.options.update_only /\ ~args.options.draft
     /\ ~args.options.publish /\ ~args.options.select) => Consistent(SubmitPlan)

\* C24: When run_submit calls execute_submission the plan's steps are a push exactly for
\* bookmarks_needing_push, a creation exactly for prs_to_create with the same draft flag,
\* a base update exactly for prs_to_update_base and a publish exactly for prs_to_publish,
\* whichever of --update-only, --draft, --publish and --select were applied.
C24_PlanConsistent ==
    SubmitExecuting => Consistent(SubmitPlan)

\* C24 witness: execute_submission is called after --select with a plan whose lists are
\* those of the selected bookmark and whose steps are those of the whole stack.
C24_Witness ==
    /\ SubmitExecuting
    /\ args.options.select
    /\ Cardinality(selected) = 1
    /\ Len(SubmitPlan.prs_to_create) = 1
    /\ Cardinality(StepBookmarks(SubmitPlan, "CreatePr")) = 3

\* the bookmarks the user selected
SelectedNames == {TargetAnalysis.segments[i].bookmark.name : i \in selected}

\* the bookmarks the run has done something for: pushed, a PR created, or a PR that
\* existed changed in base, draft state or comments
TouchedBookmarks ==
    PushedBookmarks
    \cup {prs[n].head_ref : n \in CreatedPrs}
    \cup {pre.prs[n].head_ref : n \in {m \in DOMAIN pre.prs : prs[m] # pre.prs[m]}}

\* C25: With --select the run touches selected bookmarks only: nothing is pushed, no PR
\* is created, re-based or published and no stack comment is written for a bookmark the
\* user did not select.
C25_SelectFrame ==
    (Analysed /\ args.options.select) => TouchedBookmarks \subseteq SelectedNames

\* with --select the stack comments are written on the PRs of selected bookmarks only
C25_SelectComments ==
    (Analysed /\ args.options.select) =>
        \A n \in DOMAIN pre.prs :
            prs[n].threads # pre.prs[n].threads => prs[n].head_ref \in SelectedNames

\* C25 witness: the user selected one bookmark of three, and the run that has ended
\* pushed another and created a PR for it.
C25_Witness ==
    /\ Analysed
    /\ args.options.select
    /\ Cardinality(selected) = 1
    /\ pc = "done"
    /\ \E n \in CreatedPrs :
          /\ prs[n].head_ref \notin SelectedNames
          /\ prs[n].head_ref \in PushedBookmarks

\* the plans run_sync has built for the stacks
SyncPlans == [i \in DOMAIN stack_plans |-> stack_plans[i].plan]

\* no two plans of the run have a step of the kind for the same bookmark
OnePlanPer(kind) ==
    \A i, j \in DOMAIN SyncPlans :
        i # j => StepBookmarks(SyncPlans[i], kind) \cap StepBookmarks(SyncPlans[j], kind) = {}

\* C26: Within one run_sync at most one PR creation is attempted per bookmark and no PR
\* is re-based twice, also when stacks share trunk-side segments: the plans of different
\* stacks never both schedule a creation, or a base update, for the same bookmark.
C26_SyncOncePerBookmark ==
    (args.cmd = "sync" /\ pc # "start") =>
        /\ OnePlanPer("CreatePr")
        /\ OnePlanPer("UpdateBase")
        /\ \A n, m \in CreatedPrs : prs[n].head_ref = prs[m].head_ref => n = m

\* within a single plan a bookmark has at most one creation or base update
C26_OncePerPlan ==
    \A i \in DOMAIN stack_plans :
        \A s1, s2 \in stack_plans[i].plan.execution_steps :
            (s1.kind \in PrKinds /\ s2.kind \in PrKinds /\ s1.bookmark = s2.bookmark) => s1 = s2

\* C26 witness: run_sync is executing the plans of two stacks that share their first
\* segment, and both plans hold a creation for its bookmark.
C26_Witness ==
    /\ args.cmd = "sync"
    /\ pc = "execute"
    /\ Len(stack_plans) = 2
    /\ \E b \in GraphBookmarks(graph) :
          /\ b \in StepBookmarks(SyncPlans[1], "CreatePr")
          /\ b \in StepBookmarks(SyncPlans[2], "CreatePr")

\* the bases the plan has in mind for the bookmark: of the PR to create, of the base
\* update, and of the steps for them
PlannedBases(plan, b) ==
         {plan.prs_to_create[k].base_branch :
             k \in {x \in DOMAIN plan.prs_to_create : plan.prs_to_create[x].bookmark.name = b}}
    \cup {plan.prs_to_update_base[k].expected_base :
             k \in {x \in DOMAIN plan.prs_to_update_base :
                       plan.prs_to_update_base[x].bookmark.name = b}}
    \cup {st.base : st \in {x \in plan.execution_steps : x.kind \in PrKinds /\ x.bookmark = b}}

\* --only was accepted for a target that is not on the first segment of its stack
OnlyOnParent ==
    /\ Analysed
    /\ args.options.scope = "Only"
    /\ Len(stack_plans) = 1
    /\ TargetAnalysis.segments[1].bookmark.name # args.bookmark

\* the bookmark of the segment before the target's
ParentOfTarget ==
    LET segs == TargetAnalysis.segments
        t    == CHOOSE i \in DOMAIN segs : segs[i].bookmark.name = args.bookmark
    IN  segs[t - 1].bookmark.name

\* C27: With --only on a target that is not on the first segment and whose parent has an
\* open PR, the PR planned for the target, to be created or to be checked for its base,
\* has the parent bookmark as base, not the default branch.
C27_OnlyBase ==
    OnlyOnParent =>
        /\ PlannedBases(SubmitPlan, args.bookmark) \subseteq {ParentOfTarget}
        /\ \A n \in DOMAIN prs :
              prs[n].head_ref = args.bookmark => prs[n].base_ref = ParentOfTarget

\* C27 witness: --only for a target on its parent's open PR has ended with the target's
\* new PR based on the default branch.
C27_Witness ==
    /\ OnlyOnParent
    /\ pc = "done"
    /\ HasOpenPr(pre.prs, ParentOfTarget)
    /\ \E n \in CreatedPrs :
          prs[n].head_ref = args.bookmark /\ prs[n].base_ref = DefaultBranch

\* C27 witness of an existing PR: the target's PR was on the parent bookmark and --only
\* has moved it to the default branch.
C27_WitnessRebased ==
    /\ OnlyOnParent
    /\ pc = "done"
    /\ \E n \in DOMAIN pre.prs :
          /\ pre.prs[n].head_ref = args.bookmark
          /\ pre.prs[n].base_ref = ParentOfTarget
          /\ prs[n].base_ref = DefaultBranch

\* the analysis run_submit handed to the planner
Merged == stack_plans[1].analysis.segments

\* --stack has been analysed and planned
StackPlanned == Analysed /\ args.options.scope = "Stack" /\ Len(stack_plans) = 1

\* with --stack every segment of the merged analysis comes after the segment of its
\* parent, the one its base_branch names
C28_StackOrder ==
    StackPlanned =>
        \A i \in DOMAIN Merged :
            \/ Merged[i].base_branch = DefaultBranch
            \/ \E j \in 1..(i - 1) : Merged[j].bookmark.name = Merged[i].base_branch

\* C28: With --stack every segment of the merged analysis comes after its parent's
\* segment, and the PR planned for it has the parent's bookmark as base, or the default
\* branch next to the trunk, not the bookmark of a sibling that precedes it in the list.
C28_StackBases ==
    StackPlanned =>
        /\ C28_StackOrder
        /\ \A i \in DOMAIN Merged :
              PlannedBases(SubmitPlan, Merged[i].bookmark.name) \subseteq {Merged[i].base_branch}

\* C28 witness: --stack over a -> b, a -> d has ended with the PR of one of b, d based on
\* the other.
C28_Witness ==
    /\ StackPlanned
    /\ Len(graph.stacks) = 2
    /\ pc = "done"
    /\ \E n \in CreatedPrs :
          /\ prs[n].head_ref \in {"b", "d"}
          /\ prs[n].base_ref \in {"b", "d"}

\* C29: With --stack each segment of the change graph is in the merged analysis at most
\* once, also when the target's segment carries several bookmarks: no two segments of the
\* analysis, and so no two planned PRs, are on the same change.
C29_StackOneSegmentPerChange ==
    StackPlanned =>
        \A i, j \in DOMAIN Merged : Merged[i].change_id = Merged[j].change_id => i = j

\* with --stack on a graph whose segments carry one bookmark each, no change is in the
\* merged analysis twice
C29_SingleBookmarkSegments ==
    (StackPlanned /\ \A i \in DOMAIN graph.stacks : \A k \in DOMAIN graph.stacks[i] :
                          Len(graph.stacks[i][k].bookmarks) = 1) =>
        \A i, j \in DOMAIN Merged : Merged[i].change_id = Merged[j].change_id => i = j

\* C29 witness: --stack for a target that shares its change with another bookmark has
\* ended with PRs created for both bookmarks of that change.
C29_Witness ==
    /\ StackPlanned
    /\ pc = "done"
    /\ \E i, j \in DOMAIN Merged :
          /\ i # j
          /\ Merged[i].change_id = Merged[j].change_id
          /\ Merged[i].bookmark.name = args.bookmark
          /\ \E n, m \in CreatedPrs :
                /\ prs[n].head_ref = Merged[i].bookmark.name
                /\ prs[m].head_ref = Merged[j].bookmark.name

\* the ids list_pr_comments returns for the PR, each once
ListedIdsDistinct(kind, P, n) ==
    LET comments == list_pr_comments(kind, P, n)
    IN  \A i, j \in DOMAIN comments : comments[i].id = comments[j].id => i = j

\* the executor has just updated a stack comment through update_pr_comment
CommentUpdated == log # <<>> /\ log[Len(log)].outcome = "updated"

\* an id that no thread of the PR holds: update_pr_comment fails and changes nothing
C30_UnknownIdChangesNothing ==
    platform_kind = "AzureDevOps" =>
        \A n \in DOMAIN prs : \A id \in 1..(CommentCount(prs) + 1) :
            find_thread(prs[n].threads, id) = 0 =>
                /\ ~update_pr_comment_ok(platform_kind, prs, n, id)
                /\ update_pr_comment(platform_kind, prs, n, id, StackBody) = prs

\* C30: On Azure DevOps the ids list_pr_comments returns identify one text comment of the
\* PR each, and update_pr_comment with the id of a listed comment changes that comment
\* and no other: an update of a stack comment leaves every other comment as it was.
C30_AzureUpdateExact ==
    /\ [](platform_kind = "AzureDevOps" =>
             \A n \in DOMAIN prs : ListedIdsDistinct(platform_kind, prs, n))
    /\ [][(platform_kind = "AzureDevOps" /\ Len(log') = Len(log) + 1 /\ CommentUpdated')
             => KeepsOtherComments(prs, prs')]_vars

\* C30 witness: on Azure DevOps a PR's stack comment was found and updated, and the
\* reviewer's comment in another thread, which has the same id, now has its text.
C30_Witness ==
    /\ platform_kind = "AzureDevOps"
    /\ CommentUpdated
    /\ \E n \in DOMAIN pre.prs :
          /\ ~ListedIdsDistinct(platform_kind, pre.prs, n)
          /\ pre.prs[n].threads[1].comments[1].content = HumanBody
          /\ prs[n].threads[1].comments[1].content = StackBody

====
